---- MODULE Spec2Model ----
(***************************************************************************)
(* Model of the patient-imaging loaders (dataloader.py), of the overlay     *)
(* drawing and image conversion of PatientVisualizer (visualizer.py) and   *)
(* of the echo frame display of the viewer (app.py).                       *)
(*                                                                         *)
(* Python values are records with a "kind" field so that values of         *)
(* different Python types can be compared.  File names are sequences of    *)
(* one-character strings, so that split('.'), startswith and Path.stem are *)
(* computed and not assumed.                                               *)
(***************************************************************************)
EXTENDS Integers, Sequences, FiniteSets, TLC

VARIABLES
    disk_filelist,        \* Echocardiography/FileList.csv as it is on disk
    disk_tracings,        \* Echocardiography/VolumeTracings.csv as it is on disk
    dirs,                 \* data_dir/<patient_id>/ : the files, in listing order
    filelist_csv,         \* PatientDataLoader.filelist_csv
    volume_tracings_csv,  \* PatientDataLoader.volume_tracings_csv
    call,                 \* the last loader method called, with its argument
    result,               \* what that call returned (or the exception it raised)
    csv_at_init,          \* the two CSV files as they were when __init__ ran
    win,                  \* the fields and widgets of MainWindow
    vis                   \* the arrays and images a caller of PatientVisualizer holds

loader_vars == <<filelist_csv, volume_tracings_csv>>
disk_vars == <<disk_filelist, disk_tracings, dirs>>
vars == <<disk_filelist, disk_tracings, dirs, filelist_csv, volume_tracings_csv,
          call, result, csv_at_init, win, vis>>

-----------------------------------------------------------------------------
(* Bounds of the model *)

MaxRows == 2          \* rows of a metadata table
MaxFrameNo == 1       \* largest Frame number written in VolumeTracings.csv
MaxFiles == 2         \* files in one patient directory
MaxFrames == 2        \* frames a video container decodes to
MaxTempFiles == 4      \* files one visualizer's calls create in the temporary directory
MaxSegments == 2      \* segments handed to one call of draw_tracings_on_frame

-----------------------------------------------------------------------------
(* Python values *)

NoneVal == [kind |-> "None"]
Return(v) == [kind |-> "return", value |-> v]
Raise(e) == [kind |-> "raise", exc |-> e]
IsRaise(r) == r.kind = "raise"
\* the same, of a value that may have no kind
Raised(x) == "exc" \in DOMAIN x

\* an assignment name = value followed by the statements Rest that read the
\* name: the value is computed once, before they run
With(value, Rest(_)) == CHOOSE r \in {Rest(name) : name \in {value}} : TRUE

\* a cell of a parsed CSV: a number, a blank cell (pandas reads it as NaN),
\* or text that is no number
Num(n) == [t |-> "num", v |-> n]
NaN == [t |-> "nan", v |-> 0]
Text == [t |-> "text", v |-> 0]

\* float(cell): a number or nan converts, text raises ValueError
ToFloat(c) == IF c.t = "text" THEN Raise("ValueError") ELSE Return(c)
\* int(cell): int(nan) and int(text) raise ValueError
ToInt(c) == IF c.t = "num" THEN Return(c.v) ELSE Raise("ValueError")

-----------------------------------------------------------------------------
(* File names *)

Dot == "."
NameX1 == <<"X", "1">>
NameX10 == <<"X", "1", "0">>
NameY == <<"Y">>
ExtAvi == <<".", "a", "v", "i">>
ExtMp4 == <<".", "m", "p", "4">>
ExtPng == <<".", "p", "n", "g">>
ExtMat == <<".", "m", "a", "t">>
EcgPrefix == <<"e", "c", "g", "_", "v", "i", "s", "u", "a", "l", "i", "z", "a", "t", "i", "o", "n", "_">>

\* str.startswith
StartsWith(s, p) == Len(p) <= Len(s) /\ SubSeq(s, 1, Len(p)) = p
\* str.endswith
EndsWith(s, p) == Len(p) <= Len(s) /\ SubSeq(s, Len(s) - Len(p) + 1, Len(s)) = p

DotPositions(s) == {i \in 1..Len(s) : s[i] = Dot}
MinOf(S) == CHOOSE m \in S : \A n \in S : m <= n
MaxOf(S) == CHOOSE m \in S : \A n \in S : m >= n

\* filename.split('.')[0]
SplitFirstDot(s) ==
    IF DotPositions(s) = {} THEN s ELSE SubSeq(s, 1, MinOf(DotPositions(s)) - 1)

\* pathlib: Path.stem drops the last suffix; a leading dot starts no suffix
PathStem(s) ==
    LET dots == DotPositions(s) \ {1, Len(s)}
    IN IF dots = {} THEN s ELSE SubSeq(s, 1, MaxOf(dots) - 1)

\* pathlib: Path.suffix
PathSuffix(s) ==
    LET dots == DotPositions(s) \ {1, Len(s)}
    IN IF dots = {} THEN <<>> ELSE SubSeq(s, MaxOf(dots), Len(s))

-----------------------------------------------------------------------------
(* The two metadata tables: a parsed table is a DataFrame, its rows in file *)
(* order.  The FileName cells are strings; the other cells may be blank or  *)
(* text.                                                                    *)

DataFrame(rows) == [kind |-> "DataFrame", rows |-> rows]

\* df[df['FileName'] == filename]: the positions of the rows, in table order
RowsEqual(df, filename) ==
    {i \in 1..Len(df.rows) : df.rows[i].FileName = filename}

\* df[df['FileName'].str.startswith(base_filename)]
RowsStartingWith(df, base_filename) ==
    {i \in 1..Len(df.rows) : StartsWith(df.rows[i].FileName, base_filename)}

\* the dictionary get_filelist_metadata builds from matching_rows.iloc[0]
FilelistRecord(row) ==
    LET ef == ToFloat(row.EF)
        esv == ToFloat(row.ESV)
        edv == ToFloat(row.EDV)
        fh == ToInt(row.FrameHeight)
        fw == ToInt(row.FrameWidth)
        fps == ToFloat(row.FPS)
        nf == ToInt(row.NumberOfFrames)
    IN IF IsRaise(ef) \/ IsRaise(esv) \/ IsRaise(edv) \/ IsRaise(fh)
          \/ IsRaise(fw) \/ IsRaise(fps) \/ IsRaise(nf)
       THEN Raise("ValueError")
       ELSE Return([kind |-> "dict",
                    filename |-> row.FileName,
                    ef |-> ef.value, esv |-> esv.value, edv |-> edv.value,
                    frame_height |-> fh.value, frame_width |-> fw.value,
                    fps |-> fps.value, number_of_frames |-> nf.value])

\* a lookup that matches by prefix instead of equality
get_filelist_metadata_prefix(df, filename) ==
    IF df = NoneVal THEN Return(NoneVal)
    ELSE LET matching_rows == RowsStartingWith(df, filename)
         IN IF matching_rows = {} THEN Return(NoneVal)
            ELSE FilelistRecord(df.rows[MinOf(matching_rows)])

\* PatientDataLoader.get_filelist_metadata
get_filelist_metadata(df, filename) ==
    IF df = NoneVal THEN Return(NoneVal)
    ELSE LET matching_rows == RowsEqual(df, filename)
         IN IF matching_rows = {} THEN Return(NoneVal)
            ELSE FilelistRecord(df.rows[MinOf(matching_rows)])

\* a selection that always adds the rows matched by prefix
MatchingTracingRowsBoth(df, filename) ==
    RowsEqual(df, filename) \cup RowsStartingWith(df, SplitFirstDot(filename))

\* the rows get_volume_tracings selects: equal file name, and when there is
\* none the rows whose file name starts with filename.split('.')[0]
MatchingTracingRows(df, filename) ==
    IF RowsEqual(df, filename) # {}
    THEN RowsEqual(df, filename)
    ELSE RowsStartingWith(df, SplitFirstDot(filename))

EmptyDict == [k \in {} |-> <<>>]

\* the dictionary appended to tracings_by_frame[frame]
TracingPoint(row) ==
    LET x1 == ToFloat(row.X1)
        y1 == ToFloat(row.Y1)
        x2 == ToFloat(row.X2)
        y2 == ToFloat(row.Y2)
    IN IF IsRaise(x1) \/ IsRaise(y1) \/ IsRaise(x2) \/ IsRaise(y2)
       THEN Raise("ValueError")
       ELSE Return([x1 |-> x1.value, y1 |-> y1.value,
                    x2 |-> x2.value, y2 |-> y2.value])

\* an insert at the front of the list instead of an append
PrependTracing(tracings_by_frame, frame, point) ==
    IF frame \in DOMAIN tracings_by_frame
    THEN [tracings_by_frame EXCEPT ![frame] = <<point>> \o @]
    ELSE [k \in DOMAIN tracings_by_frame \cup {frame} |->
             IF k = frame THEN <<point>> ELSE tracings_by_frame[k]]

\* tracings_by_frame[frame].append(point), creating the list when needed
AppendTracing(tracings_by_frame, frame, point) ==
    IF frame \in DOMAIN tracings_by_frame
    THEN [tracings_by_frame EXCEPT ![frame] = Append(@, point)]
    ELSE [k \in DOMAIN tracings_by_frame \cup {frame} |->
             IF k = frame THEN <<point>> ELSE tracings_by_frame[k]]

\* the loop over matching_rows.iterrows(), from position i on
RECURSIVE GroupByFrame(_, _, _, _)
GroupByFrame(df, matching_rows, i, tracings_by_frame) ==
    IF i > Len(df.rows) THEN Return(tracings_by_frame)
    ELSE IF i \notin matching_rows
         THEN GroupByFrame(df, matching_rows, i + 1, tracings_by_frame)
         ELSE LET frame == ToInt(df.rows[i].Frame)
                  point == TracingPoint(df.rows[i])
              IN IF frame.kind = "raise" THEN frame
                 ELSE IF point.kind = "raise" THEN point
                 ELSE GroupByFrame(df, matching_rows, i + 1,
                          AppendTracing(tracings_by_frame, frame.value, point.value))

\* PatientDataLoader.get_volume_tracings
get_volume_tracings(df, filename) ==
    IF df = NoneVal THEN Return(EmptyDict)
    ELSE LET matching_rows == MatchingTracingRows(df, filename)
         IN IF matching_rows = {} THEN Return(EmptyDict)
            ELSE GroupByFrame(df, matching_rows, 1, EmptyDict)

-----------------------------------------------------------------------------
(* A patient directory is the sequence of its files in listing order, each  *)
(* with what decoding it gives: an image, a video, or a decoder exception.  *)

ImageContent(shape, mode) == [kind |-> "image", shape |-> shape, mode |-> mode]
VideoContent(n, fps) ==
    [kind |-> "video", frames |-> n, fps |-> fps, width |-> 112, height |-> 112]
Corrupt == [kind |-> "corrupt"]

IsEcgPng(f) ==
    /\ Len(f.name) >= Len(EcgPrefix) + Len(ExtPng)
    /\ StartsWith(f.name, EcgPrefix)
    /\ EndsWith(f.name, ExtPng)
IsPng(f) == EndsWith(f.name, ExtPng)
IsMp4(f) == EndsWith(f.name, ExtMp4)
IsAvi(f) == EndsWith(f.name, ExtAvi)

\* what a loader hands back: the returned value and what it printed
Returns(v, msg) == [kind |-> "return", value |-> v, printed |-> msg]
Tuple(data, metadata) == [kind |-> "tuple", data |-> data, metadata |-> metadata]

\* the body of load_ecg's try block
ecg_try(png_file) ==
    IF png_file.content.kind # "image" THEN Raise("UnidentifiedImageError")
    ELSE LET shape == png_file.content.shape
             channels == IF Len(shape) = 3 THEN shape[3] ELSE 1
         IN Return(Tuple(png_file.content,
                [modality |-> "ECG", format |-> "png", shape |-> shape,
                 size |-> <<shape[2], shape[1]>>, mode |-> png_file.content.mode,
                 dimensions |-> [width |-> shape[2], height |-> shape[1],
                                 channels |-> channels]]))

\* PatientDataLoader.load_ecg
load_ecg(files) ==
    LET ecg_png_files == SelectSeq(files, IsEcgPng)
    IN IF ecg_png_files = <<>> THEN Returns(NoneVal, <<>>)
       ELSE LET r == ecg_try(ecg_png_files[1])
            IN IF IsRaise(r) THEN Returns(NoneVal, <<"Error loading ECG">>)
               ELSE Returns(r.value, <<>>)

\* the body of load_angio's try block
angio_try(image_file) ==
    IF image_file.content.kind # "image" THEN Raise("UnidentifiedImageError")
    ELSE Return(Tuple(image_file.content,
                [modality |-> "Cardiac Angiography", format |-> "png",
                 shape |-> image_file.content.shape,
                 mode |-> image_file.content.mode,
                 size |-> <<image_file.content.shape[2],
                            image_file.content.shape[1]>>]))

\* PatientDataLoader.load_angio
load_angio(files) ==
    LET png_files == SelectSeq(files, IsPng)
    IN IF png_files = <<>> THEN Returns(NoneVal, <<>>)
       ELSE LET r == angio_try(png_files[1])
            IN IF IsRaise(r) THEN Returns(NoneVal, <<"Error loading Angio">>)
               ELSE Returns(r.value, <<>>)

\* a decoded frame: which frame of the file it is, its size, and what has
\* been drawn on it
Frame(k, height, width) ==
    [no |-> k, height |-> height, width |-> width, drawn |-> <<>>]

\* the frames cap.read() yields: frame k of the file, k = 0 .. n-1
DecodedFrames(video) ==
    [k \in 1..video.frames |-> Frame(k - 1, video.height, video.width)]

\* the body of load_echo's try block
echo_try(video_file, fl_csv, vt_csv) ==
    IF video_file.content.kind # "video" THEN Raise("cv2.error")
    ELSE LET frames == DecodedFrames(video_file.content)
             metadata == [modality |-> "Echocardiography",
                          format |-> PathSuffix(video_file.name),
                          fps |-> video_file.content.fps,
                          total_frames |-> video_file.content.frames,
                          width |-> video_file.content.width,
                          height |-> video_file.content.height,
                          frame_count |-> Len(frames)]
             filelist_data == get_filelist_metadata(fl_csv, PathStem(video_file.name))
             volume_tracings == get_volume_tracings(vt_csv, video_file.name)
         IN IF IsRaise(filelist_data) THEN filelist_data
            ELSE IF IsRaise(volume_tracings) THEN volume_tracings
            ELSE Return(Tuple(frames,
                    metadata
                    @@ (IF filelist_data.value # NoneVal
                        THEN [filelist_data |-> filelist_data.value]
                        ELSE <<>>)
                    @@ (IF DOMAIN volume_tracings.value # {}
                        THEN [volume_tracings |-> volume_tracings.value]
                        ELSE <<>>)))

\* list(glob("*.mp4")) + list(glob("*.avi"))
VideoFiles(files) == SelectSeq(files, IsMp4) \o SelectSeq(files, IsAvi)

\* PatientDataLoader.load_echo
load_echo(files, fl_csv, vt_csv) ==
    LET video_files == VideoFiles(files)
    IN IF video_files = <<>> THEN Returns(NoneVal, <<>>)
       ELSE LET r == echo_try(video_files[1], fl_csv, vt_csv)
            IN IF IsRaise(r) THEN Returns(NoneVal, <<"Error loading Echo">>)
               ELSE Returns(r.value, <<>>)

\* PatientDataLoader.load_patient_data
load_patient_data(files, fl_csv, vt_csv) ==
    LET ecg == load_ecg(files)
        echo == load_echo(files, fl_csv, vt_csv)
        angio == load_angio(files)
    IN Returns([ecg |-> ecg.value, echo |-> echo.value, angio |-> angio.value],
               ecg.printed \o echo.printed \o angio.printed)

IsMat(f) == EndsWith(f.name, ExtMat)
PathStr(f) == [kind |-> "str", name |-> f.name]

\* PatientDataLoader.get_modality_image
get_modality_image(files, modality) ==
    LET found == CASE modality = "ECG" -> SelectSeq(files, IsMat)
                   [] modality = "Echocardiography" -> VideoFiles(files)
                   [] modality = "Cardiac Angiography" -> SelectSeq(files, IsPng)
                   [] OTHER -> <<>>
    IN IF found = <<>> THEN Returns(NoneVal, <<>>)
       ELSE Returns(PathStr(found[1]), <<>>)

-----------------------------------------------------------------------------
(* Construction: the two CSV files are read once *)

Absent == [kind |-> "absent"]
Unparseable == [kind |-> "unparseable"]
CsvFile(rows) == [kind |-> "csv", rows |-> rows]

\* pd.read_csv
read_csv(file) ==
    IF file.kind = "csv" THEN Return(DataFrame(file.rows)) ELSE Raise("ParserError")

\* one "if path.exists(): try: ... = pd.read_csv(path) except: print" block
LoadCsv(field, file) ==
    IF file.kind = "absent" THEN field
    ELSE IF IsRaise(read_csv(file)) THEN field
    ELSE read_csv(file).value

\* both files read inside one try block: the first failure skips the rest
load_csv_metadata_one_try(fl_csv, vt_csv, fl_file, vt_file) ==
    [filelist_csv |-> LoadCsv(fl_csv, fl_file),
     volume_tracings_csv |->
         IF fl_file.kind = "unparseable" THEN vt_csv ELSE LoadCsv(vt_csv, vt_file)]

\* PatientDataLoader._load_csv_metadata
load_csv_metadata(fl_csv, vt_csv, fl_file, vt_file) ==
    [filelist_csv |-> LoadCsv(fl_csv, fl_file),
     volume_tracings_csv |-> LoadCsv(vt_csv, vt_file)]

\* PatientDataLoader.__init__
PatientDataLoader(fl_file, vt_file) ==
    load_csv_metadata(NoneVal, NoneVal, fl_file, vt_file)

-----------------------------------------------------------------------------
(* PatientVisualizer: the overlay and the temporary image file *)

Min2(a, b) == IF a <= b THEN a ELSE b
Max2(a, b) == IF a >= b THEN a ELSE b

\* a clamp that lets a coordinate reach the limit itself
ClampToLimit(v, limit) == Max2(0, Min2(v, limit))

\* max(0, min(v, limit - 1))
ClampToFrame(v, limit) == Max2(0, Min2(v, limit - 1))

\* one pass of the loop of draw_tracings_on_frame: the two circles and the
\* line, at the clamped end points
DrawnTracing(frame, tracing) ==
    [x1 |-> ClampToFrame(ToInt(tracing.x1).value, frame.width),
     y1 |-> ClampToFrame(ToInt(tracing.y1).value, frame.height),
     x2 |-> ClampToFrame(ToInt(tracing.x2).value, frame.width),
     y2 |-> ClampToFrame(ToInt(tracing.y2).value, frame.height)]

\* a loop that walks the tracings from the last to the first
draw_tracings_on_frame_reversed(frame, tracings) ==
    [frame EXCEPT !.drawn =
        @ \o [j \in 1..Len(tracings) |->
                 DrawnTracing(frame, tracings[Len(tracings) + 1 - j])]]

\* PatientVisualizer.draw_tracings_on_frame, from the copy on: the loop over
\* the tracings, each drawn on the array after the ones before it
draw_tracings_on_frame(frame, tracings) ==
    [frame EXCEPT !.drawn =
        @ \o [j \in 1..Len(tracings) |-> DrawnTracing(frame, tracings[j])]]

\* frame.copy(): a new array holding the same values
ndarray_copy(memory, id) == Append(memory, memory[id])

\* a call that draws on the array it is given
draw_tracings_call_in_place(memory, id, tracings) ==
    [memory |-> [memory EXCEPT ![id] = draw_tracings_on_frame(@, tracings)],
     ret |-> id]

\* a call of draw_tracings_on_frame on the array memory[id]: the array is
\* copied, the copy is drawn on and returned
draw_tracings_call(memory, id, tracings) ==
    LET copied == ndarray_copy(memory, id)
        new == Len(copied)
    IN [memory |-> [copied EXCEPT ![new] = draw_tracings_on_frame(@, tracings)],
        ret |-> new]

\* the colours of the three cv2 calls, and the colour of a pixel that was
\* never drawn on
Green == <<0, 255, 0>>
Red == <<255, 0, 0>>
Yellow == <<255, 255, 0>>
Undrawn == <<0, 0, 0>>

\* the pixels cv2.circle(frame, center, 2, color, -1) fills
CirclePixels(frame, cx, cy) ==
    {p \in (Max2(0, cx - 2)..Min2(frame.width - 1, cx + 2))
           \X (Max2(0, cy - 2)..Min2(frame.height - 1, cy + 2)) :
        (p[1] - cx) * (p[1] - cx) + (p[2] - cy) * (p[2] - cy) <= 4}

\* |v|
Abs(v) == IF v < 0 THEN -v ELSE v

\* the pixels cv2.line(frame, (x1, y1), (x2, y2), color, 1) sets: one pixel
\* per step along the longer axis, the other coordinate rounded
LinePixels(x1, y1, x2, y2) ==
    LET n == Max2(Abs(x2 - x1), Abs(y2 - y1))
    IN IF n = 0 THEN {<<x1, y1>>}
       ELSE {<<x1 + (2 * i * (x2 - x1) + n) \div (2 * n),
               y1 + (2 * i * (y2 - y1) + n) \div (2 * n)>> : i \in 0..n}

\* the colour of pixel p after the first k segments of the frame were drawn:
\* each cv2 call overwrites the pixels it covers
RECURSIVE PixelAfter(_, _, _)
PixelAfter(frame, k, p) ==
    IF k = 0 THEN Undrawn
    ELSE LET d == frame.drawn[k]
         IN IF p \in LinePixels(d.x1, d.y1, d.x2, d.y2) THEN Yellow
            ELSE IF p \in CirclePixels(frame, d.x2, d.y2) THEN Red
            ELSE IF p \in CirclePixels(frame, d.x1, d.y1) THEN Green
            ELSE PixelAfter(frame, k - 1, p)

\* the colour of pixel p of the frame
Pixel(frame, p) == PixelAfter(frame, Len(frame.drawn), p)


-----------------------------------------------------------------------------
(* PatientVisualizer: arrays, and their conversion to an 8-bit image *)

\* a numpy array: its dtype, its shape and its values in C order.  The values
\* of a float array are written in quarters: 2 is 0.5, 4 is 1.0, 800 is 200.0
ndarray(dtype, shape, data) ==
    [kind |-> "ndarray", dtype |-> dtype, shape |-> shape, data |-> data]

\* the frames and images the loaders decode are 8-bit; a video frame is
\* height x width x 3, and its values are the decoded picture itself
Dtype(frame) == IF "dtype" \in DOMAIN frame THEN frame.dtype ELSE "uint8"
Shape(frame) ==
    IF "shape" \in DOMAIN frame THEN frame.shape
    ELSE <<frame.height, frame.width, 3>>
Data(frame) == IF "data" \in DOMAIN frame THEN frame.data ELSE frame

IsFloat(dtype) == dtype \in {"float32", "float64"}

\* frame.max(), of a float array in quarters; it raises on an array of size 0
ArrayMax(frame) == MaxOf({frame.data[i] : i \in 1..Len(frame.data)})

\* .astype(np.uint8) of an integer: the low 8 bits
IntAsUint8(v) == v % 256
\* .astype(np.uint8) of a float x, given as the integers n and d with
\* x = n / d and n >= 0: the fraction is dropped
FloatAsUint8(n, d) == (n \div d) % 256

\* each value of the array replaced by f of it
MapData(frame, f(_)) ==
    ndarray("uint8", frame.shape, [i \in 1..Len(frame.data) |-> f(frame.data[i])])

\* a rescale by the fixed range 0 .. 255 instead of the frame's own maximum
ScaledByFixedRange(frame) ==
    LET f(v) == FloatAsUint8(v * 255, 255 * 4)
    IN MapData(frame, f)

\* (frame / frame.max() * 255).astype(np.uint8)
ScaledByMax(frame) ==
    LET m == ArrayMax(frame)
        f(v) == FloatAsUint8(v * 255, m)
    IN MapData(frame, f)

\* (frame * 255).astype(np.uint8)
ScaledBy255(frame) ==
    LET f(v) == FloatAsUint8(v * 255, 4)
    IN MapData(frame, f)

\* a reduction that maps 0 .. 65535 onto 0 .. 255: v * 255 / 65535
ScaledTo255(frame) ==
    LET f(v) == FloatAsUint8(v * 255, 65535)
    IN MapData(frame, f)

\* (frame / 256).astype(np.uint8)
DividedBy256(frame) ==
    LET f(v) == FloatAsUint8(v, 256)
    IN MapData(frame, f)

\* frame.astype(np.uint8)
astype_uint8(frame) ==
    LET f(v) == IF IsFloat(frame.dtype) THEN FloatAsUint8(v, 4) ELSE IntAsUint8(v)
    IN MapData(frame, f)

\* a normalize_dtype that reduces an 8-bit frame as if it were a 16-bit one
normalize_dtype_reducing_uint8(frame) ==
    IF Dtype(frame) \in {"uint8", "uint16"} THEN DividedBy256(frame)
    ELSE IF IsFloat(frame.dtype)
         THEN IF Len(frame.data) = 0 THEN Raise("ValueError")
              ELSE IF ArrayMax(frame) > 4 THEN ScaledByMax(frame)
              ELSE ScaledBy255(frame)
    ELSE astype_uint8(frame)

\* a normalize_dtype that rescales every float frame by its own maximum
normalize_dtype_always_by_max(frame) ==
    IF Dtype(frame) = "uint8" THEN frame
    ELSE IF IsFloat(frame.dtype)
         THEN IF Len(frame.data) = 0 THEN Raise("ValueError")
              ELSE IF ArrayMax(frame) = 0 THEN Raise("ZeroDivisionError")
              ELSE ScaledByMax(frame)
    ELSE IF frame.dtype = "uint16" THEN DividedBy256(frame)
    ELSE astype_uint8(frame)

\* the first half of frame_to_pil_image: the frame as an 8-bit array
normalize_dtype(frame) ==
    IF Dtype(frame) = "uint8" THEN frame
    ELSE IF IsFloat(frame.dtype)
         THEN IF Len(frame.data) = 0 THEN Raise("ValueError")
              ELSE IF ArrayMax(frame) > 4 THEN ScaledByMax(frame)
              ELSE ScaledBy255(frame)
    ELSE IF frame.dtype = "uint16" THEN DividedBy256(frame)
    ELSE astype_uint8(frame)

\* a PIL image: mode, size (width, height), the band values, and whether the
\* image maps the memory of the array it was made from instead of copying it
Image(mode, size, data, maps) ==
    [kind |-> "Image", mode |-> mode, size |-> size, data |-> data, maps |-> maps]

\* the mode Image.fromarray picks for an 8-bit array when none is given
DefaultMode(shape) ==
    IF Len(shape) <= 2 THEN "L"
    ELSE IF Len(shape) = 3 /\ shape[3] = 2 THEN "LA"
    ELSE IF Len(shape) = 3 /\ shape[3] = 3 THEN "RGB"
    ELSE IF Len(shape) = 3 /\ shape[3] = 4 THEN "RGBA"
    ELSE "None"

\* the modes whose images Image.frombuffer maps onto the buffer it is given
MapModes == {"L", "RGBA"}

\* Image.fromarray(obj, mode) of a contiguous 8-bit array
fromarray(obj, mode) ==
    LET shape == Shape(obj)
        chosen == IF mode = "None" THEN DefaultMode(shape) ELSE mode
        size == IF Len(shape) = 1 THEN <<1, shape[1]>> ELSE <<shape[2], shape[1]>>
    IN IF chosen = "None" THEN Raise("TypeError")
       ELSE Return(Image(chosen, size, Data(obj), chosen \in MapModes))

\* the second half of frame_to_pil_image: the image for the array's shape
image_for_shape(frame) ==
    LET shape == Shape(frame)
    IN IF Len(shape) = 2 THEN fromarray(frame, "L")
       ELSE IF Len(shape) = 3
            THEN IF shape[3] = 3 THEN fromarray(frame, "RGB")
                 ELSE IF shape[3] = 4 THEN fromarray(frame, "RGBA")
                 ELSE fromarray(frame, "None")
       ELSE fromarray(frame, "None")

\* PatientVisualizer.frame_to_pil_image
frame_to_pil_image(frame) ==
    With(normalize_dtype(frame), LAMBDA normalized :
    IF Raised(normalized) THEN normalized ELSE image_for_shape(normalized))

\* bands of a mode
Bands(mode) == CASE mode = "L" -> 1 [] mode = "LA" -> 2
                 [] mode = "RGB" -> 3 [] mode = "RGBA" -> 4

\* np.array(img)
np_array(img) ==
    ndarray("uint8",
            IF img.mode = "L" THEN <<img.size[2], img.size[1]>>
            ELSE <<img.size[2], img.size[1], Bands(img.mode)>>,
            img.data)

\* the conversion frame_to_temp_file makes before it calls frame_to_pil_image
temp_file_dtype(frame) ==
    IF Dtype(frame) = "uint8" THEN frame
    ELSE IF IsFloat(frame.dtype)
         THEN IF Len(frame.data) = 0 THEN Raise("ValueError")
              ELSE IF ArrayMax(frame) <= 4 THEN ScaledBy255(frame)
              ELSE astype_uint8(frame)
    ELSE astype_uint8(frame)

\* img.save(tmp.name): the PNG file holds the mode, the size and the values
PngFile(img) == [kind |-> "png", mode |-> img.mode, size |-> img.size,
                 image |-> img.data]

\* PatientVisualizer.frame_to_temp_file: the file written, or the exception
\* it prints and raises again
frame_to_temp_file(frame) ==
    With(temp_file_dtype(frame), LAMBDA converted :
    With(IF Raised(converted) THEN converted ELSE frame_to_pil_image(converted),
         LAMBDA img :
    IF IsRaise(img) THEN img ELSE Return(PngFile(img.value))))

\* a call of frame_to_pil_image on the array memory[id].  An array that is not
\* 8-bit is converted into a new array; the image made from the 8-bit array
\* either copies its values or maps its memory (buffer is then its id, and 0
\* otherwise), and in the second case keeps that array alive
frame_to_pil_image_call(memory, id) ==
    LET frame == memory[id]
        normalized == normalize_dtype(frame)
        img == IF Raised(normalized) THEN normalized ELSE image_for_shape(normalized)
    IN IF IsRaise(img) THEN [memory |-> memory, ret |-> img]
       ELSE IF ~img.value.maps
            THEN [memory |-> Append(memory, img.value @@ [buffer |-> 0]),
                  ret |-> Return(Len(memory) + 1)]
       ELSE IF Dtype(frame) = "uint8"
            THEN [memory |-> Append(memory, img.value @@ [buffer |-> id]),
                  ret |-> Return(Len(memory) + 1)]
       ELSE [memory |-> memory \o <<normalized,
                                    img.value @@ [buffer |-> Len(memory) + 1]>>,
             ret |-> Return(Len(memory) + 2)]

\* a file of the temporary directory that was removed
Deleted == [kind |-> "deleted"]

\* tempfile.NamedTemporaryFile(suffix=".png", delete=False): a new file of the
\* temporary directory; its path is its place in the directory
NamedTemporaryFile(tmp) == Len(tmp) + 1

\* a call of frame_to_temp_file on the array memory[id]: the file is written
\* and its path is recorded in temp_files and returned; a conversion that
\* raises does so before the file is created
frame_to_temp_file_call(v, id) ==
    LET file == frame_to_temp_file(v.memory[id])
    IN IF IsRaise(file) THEN [vis |-> v, ret |-> file]
       ELSE [vis |-> [v EXCEPT !.tmp = Append(@, file.value),
                               !.temp_files = Append(@, NamedTemporaryFile(v.tmp))],
             ret |-> Return(NamedTemporaryFile(v.tmp))]

\* the figure plot_ecg saves, a plot drawn from the signal
EcgPlot(ecg_data) ==
    [kind |-> "png", plot |-> ecg_data.data, shape |-> ecg_data.shape]

\* PatientVisualizer.plot_ecg, a static method: the file is written and its
\* path returned, and no visualizer records it
plot_ecg_call(v, id) ==
    [vis |-> [v EXCEPT !.tmp = Append(@, EcgPlot(v.memory[id]))],
     ret |-> Return(NamedTemporaryFile(v.tmp))]

\* os.remove of every path in paths that exists
RECURSIVE RemoveAll(_, _)
RemoveAll(tmp, paths) ==
    IF paths = <<>> THEN tmp
    ELSE RemoveAll([tmp EXCEPT ![Head(paths)] = Deleted], Tail(paths))

\* PatientVisualizer.cleanup_temp_files
cleanup_temp_files(v) ==
    [v EXCEPT !.tmp = RemoveAll(@, v.temp_files), !.temp_files = <<>>]

-----------------------------------------------------------------------------
(* ECGViewerWidget: the 12-lead viewer with its grid and single-lead modes *)

Lead(i) == [kind |-> "int", value |-> i]

\* the axes of the grid figure that plots lead i, and those of the single figure
GridAxes(i) == [kind |-> "axes", lead |-> i]
SingleAxes == [kind |-> "single_axes"]

\* ECGViewerWidget.__init__
ECGViewerWidget ==
    [current_mode |-> "grid",
     selected_lead |-> NoneVal,
     signal |-> NoneVal,
     max_time |-> 2000,
     back_button |-> [visible |-> FALSE, enabled |-> TRUE],
     toolbar |-> [visible |-> FALSE, enabled |-> TRUE],
     figure |-> [layout |-> "empty"],
     grid_axes |-> <<>>]

\* min(self.signal.shape[1], self.max_time)
PlottedLength(e) == Min2(e.signal.shape[2], e.max_time)

\* ECGViewerWidget.show_grid_mode
show_grid_mode(e) ==
    IF e.signal = NoneVal THEN e
    ELSE [e EXCEPT !.current_mode = "grid",
                   !.selected_lead = NoneVal,
                   !.back_button = [visible |-> FALSE, enabled |-> FALSE],
                   !.toolbar = [visible |-> FALSE, enabled |-> FALSE],
                   !.figure = [layout |-> "grid", t_len |-> PlottedLength(e)],
                   !.grid_axes = [i \in 1..12 |-> GridAxes(i - 1)]]

\* a show_single_mode that takes every lead index
show_single_mode_unchecked(e, lead_index) ==
    IF e.signal = NoneVal THEN e
    ELSE [e EXCEPT !.current_mode = "single",
                   !.selected_lead = Lead(lead_index),
                   !.back_button = [visible |-> TRUE, enabled |-> TRUE],
                   !.toolbar = [visible |-> TRUE, enabled |-> TRUE],
                   !.figure = [layout |-> "single", lead |-> lead_index,
                               t_len |-> PlottedLength(e)]]

\* ECGViewerWidget.show_single_mode
show_single_mode(e, lead_index) ==
    IF e.signal = NoneVal THEN e
    ELSE IF lead_index < 0 \/ lead_index >= 12 THEN e
    ELSE [e EXCEPT !.current_mode = "single",
                   !.selected_lead = Lead(lead_index),
                   !.back_button = [visible |-> TRUE, enabled |-> TRUE],
                   !.toolbar = [visible |-> TRUE, enabled |-> TRUE],
                   !.figure = [layout |-> "single", lead |-> lead_index,
                               t_len |-> PlottedLength(e)]]

\* signal.ndim == 2 and signal.shape[0] == 12
IsTwelveLead(signal) == Len(signal.shape) = 2 /\ signal.shape[1] = 12

\* ECGViewerWidget.set_signal: the widget after the call, and what the call
\* returned or raised
set_signal(e, signal, max_time) ==
    IF ~IsTwelveLead(signal)
    THEN [widget |-> e, ret |-> Raise("ValueError")]
    ELSE [widget |-> show_grid_mode([e EXCEPT !.signal = signal,
                                              !.max_time = max_time]),
          ret |-> Return(NoneVal)]

\* ECGViewerWidget.on_click, event.inaxes being None or the axes clicked
on_click(e, inaxes) ==
    IF e.current_mode # "grid" THEN e
    ELSE IF inaxes = NoneVal THEN e
    ELSE IF \E i \in 1..Len(e.grid_axes) : e.grid_axes[i] = inaxes
         THEN show_single_mode(e,
                  (CHOOSE i \in 1..Len(e.grid_axes) : e.grid_axes[i] = inaxes) - 1)
         ELSE e

-----------------------------------------------------------------------------
(* MainWindow: the fields and widgets the handlers read and write *)

List(items) == [kind |-> "list", items |-> items]
\* nothing held yet
NoObjects == [memory |-> <<>>, temp_files |-> <<>>, tmp |-> <<>>]
NoPatient == ""
NoModality == ""
NullPixmap == [kind |-> "null"]
\* QtGui.QPixmap(file_path) of a PNG file that was just written
QPixmap(file) == [kind |-> "pixmap", image |-> file.image]
\* the 520 x 360 pixmap _show_placeholder paints the message on
Placeholder(message) == [kind |-> "placeholder", message |-> message]

\* self.formats
Formats == <<"ECG", "Cardiac Angiography", "Echocardiography">>

\* len(self.current_echo_frames), 0 when it is None
FrameCount(w) ==
    IF w.current_echo_frames = NoneVal THEN 0 ELSE Len(w.current_echo_frames.items)

\* QSlider.setValue: the value is kept inside minimum..maximum
SliderSetValue(slider, value) ==
    [slider EXCEPT !.value = Max2(0, Min2(value, slider.maximum))]

\* QSlider.setMaximum
SliderSetMaximum(slider, maximum) ==
    [slider EXCEPT !.maximum = Max2(0, maximum),
                   !.value = Max2(0, Min2(slider.value, Max2(0, maximum)))]

\* int(1000 / (fps * playback_speed)), the speed in hundredths
FrameInterval(fps, speed) == (1000 * 100) \div (fps * speed)

\* MainWindow.update_frame_label
update_frame_label(w) ==
    IF w.current_echo_frames # NoneVal
    THEN [w EXCEPT !.frame_label =
             [index |-> w.current_frame_index, total |-> FrameCount(w)]]
    ELSE w

\* MainWindow._show_placeholder
show_placeholder(w, message) ==
    IF w.current_modality_label = "Cardiac Angiography"
    THEN [w EXCEPT !.image_viewer = Placeholder(message),
                   !.content_stack = "image_viewer"]
    ELSE [w EXCEPT !.echo_label = Placeholder(message),
                   !.content_stack = "echo_label"]

\* MainWindow._display_echo_image_file and _apply_echo_pixmap, the label
\* having a size, as it has once the window is shown
display_echo_image_file(w, file_path) ==
    [w EXCEPT !.echo_label = QPixmap(file_path)]

\* a display_frame that reads the annotation index with a 1-based frame number
display_frame_one_based(w, frame_index) ==
    IF w.current_echo_frames = NoneVal \/ frame_index >= FrameCount(w)
    THEN w
    ELSE LET frame == w.current_echo_frames.items[frame_index + 1]
             metadata == w.current_echo_metadata
             annotated ==
                 IF /\ metadata # NoneVal
                    /\ "volume_tracings" \in DOMAIN metadata
                    /\ frame_index + 1 \in DOMAIN metadata.volume_tracings
                 THEN draw_tracings_on_frame(frame,
                          metadata.volume_tracings[frame_index + 1])
                 ELSE frame
         IN display_echo_image_file(w, frame_to_temp_file(annotated).value)

\* MainWindow.display_frame
display_frame(w, frame_index) ==
    IF w.current_echo_frames = NoneVal \/ frame_index >= FrameCount(w)
    THEN w
    ELSE LET frame == w.current_echo_frames.items[frame_index + 1]
             metadata == w.current_echo_metadata
             annotated ==
                 IF /\ metadata # NoneVal
                    /\ "volume_tracings" \in DOMAIN metadata
                    /\ frame_index \in DOMAIN metadata.volume_tracings
                 THEN draw_tracings_on_frame(frame,
                          metadata.volume_tracings[frame_index])
                 ELSE frame
         IN display_echo_image_file(w, frame_to_temp_file(annotated).value)

\* MainWindow.stop_video
stop_video(w) ==
    LET stopped == [w EXCEPT !.video_timer.active = FALSE,
                             !.autoplay_timer.active = FALSE,
                             !.is_video_playing = FALSE]
    IN IF FrameCount(w) > 0
       THEN update_frame_label(
                [display_frame(
                    [stopped EXCEPT !.current_frame_index = 0,
                                    !.frame_slider = SliderSetValue(@, 0)], 0)
                 EXCEPT !.play_pause_button.text = "Play"])
       ELSE stopped

\* MainWindow._display_angio_image_file
display_angio_image_file(w, file_path) ==
    [w EXCEPT !.image_viewer = QPixmap(file_path)]

\* MainWindow._display_ecg
display_ecg(w, patient_id) ==
    LET cleared == [w EXCEPT !.current_echo_frames = NoneVal,
                             !.current_echo_metadata = NoneVal]
    IN With(load_ecg(dirs[patient_id]).value, LAMBDA ecg_data :
       IF ecg_data = NoneVal THEN show_placeholder(cleared, "ECG data not found")
       ELSE IF Len(ecg_data.data.shape) = 2 /\ ecg_data.data.shape[1] = 12
            THEN [cleared EXCEPT
                     !.ecg_viewer = set_signal(@, ecg_data.data, 2000).widget,
                     !.content_stack = "ecg_viewer"]
            ELSE With(frame_to_temp_file(ecg_data.data), LAMBDA temp_file :
                 IF IsRaise(temp_file)
                 THEN show_placeholder(cleared, "Error displaying ECG")
                 ELSE [display_angio_image_file(cleared, temp_file.value)
                       EXCEPT !.content_stack = "image_viewer"]))

\* MainWindow._display_angio
display_angio(w, patient_id) ==
    LET cleared == [w EXCEPT !.current_echo_frames = NoneVal,
                             !.current_echo_metadata = NoneVal]
    IN With(load_angio(dirs[patient_id]).value, LAMBDA angio_data :
       IF angio_data = NoneVal
       THEN show_placeholder(cleared, "Angiography image not found")
       ELSE With(frame_to_temp_file(angio_data.data), LAMBDA temp_file :
            IF IsRaise(temp_file)
            THEN show_placeholder(cleared, "Error displaying Angiography")
            ELSE [display_angio_image_file(cleared, temp_file.value)
                  EXCEPT !.content_stack = "image_viewer"]))

\* the three setEnabled calls on the play, stop and slider widgets
SetControlsEnabled(w, enabled) ==
    [w EXCEPT !.play_pause_button.enabled = enabled,
              !.stop_button.enabled = enabled,
              !.frame_slider.enabled = enabled]

\* fps = metadata.get("fps", 30) or 30; if fps <= 0: fps = 30
EchoFps(metadata) == IF metadata.fps <= 0 THEN 30 ELSE metadata.fps

\* MainWindow._display_echo
display_echo(w, patient_id) ==
    With(load_echo(dirs[patient_id], filelist_csv, volume_tracings_csv).value,
         LAMBDA echo_data :
       IF echo_data = NoneVal
       THEN SetControlsEnabled(
                show_placeholder(w, "Echocardiography video not found"), FALSE)
       ELSE IF Len(echo_data.data) > 0
       THEN LET frames == echo_data.data
                fps == EchoFps(echo_data.metadata)
                loaded ==
                    [w EXCEPT !.current_echo_frames = List(frames),
                              !.current_echo_metadata = echo_data.metadata,
                              !.current_frame_index = 0,
                              !.echo_fps = fps,
                              !.video_timer.interval =
                                  FrameInterval(fps, w.playback_speed),
                              !.frame_slider =
                                  SliderSetValue(SliderSetMaximum(@, Len(frames) - 1), 0)]
                shown == [display_frame(update_frame_label(loaded), 0)
                          EXCEPT !.content_stack = "echo_label"]
            IN SetControlsEnabled(
                   [shown EXCEPT !.is_video_playing = FALSE,
                                 !.play_pause_button.text = "Play",
                                 !.autoplay_timer.active = w.autoplay_checkbox],
                   TRUE)
       ELSE SetControlsEnabled(
                show_placeholder(w, "Echocardiography video empty"), FALSE))

\* an on_format_changed without its call of stop_video
on_format_changed_without_stop(w, row) ==
    IF w.current_patient = NoPatient THEN w
    ELSE With([w EXCEPT !.current_modality_label = Formats[row + 1]],
              LAMBDA labelled :
            CASE Formats[row + 1] = "ECG" ->
                   display_ecg([labelled EXCEPT !.controls_visible = FALSE],
                               w.current_patient)
              [] Formats[row + 1] = "Cardiac Angiography" ->
                   display_angio([labelled EXCEPT !.controls_visible = FALSE],
                                 w.current_patient)
              [] Formats[row + 1] = "Echocardiography" ->
                   display_echo([labelled EXCEPT !.controls_visible = TRUE],
                                w.current_patient))

\* MainWindow.on_format_changed
on_format_changed(w, row) ==
    IF w.current_patient = NoPatient THEN w
    ELSE With([stop_video(w) EXCEPT !.current_modality_label = Formats[row + 1]],
              LAMBDA labelled :
            CASE Formats[row + 1] = "ECG" ->
                   display_ecg([labelled EXCEPT !.controls_visible = FALSE],
                               w.current_patient)
              [] Formats[row + 1] = "Cardiac Angiography" ->
                   display_angio([labelled EXCEPT !.controls_visible = FALSE],
                                 w.current_patient)
              [] Formats[row + 1] = "Echocardiography" ->
                   display_echo([labelled EXCEPT !.controls_visible = TRUE],
                                w.current_patient))

\* MainWindow.set_modality
set_modality(w, row) == on_format_changed(w, row)

\* MainWindow.on_patient_selected
on_patient_selected(w, patient_id) ==
    set_modality([w EXCEPT !.current_patient = patient_id, !.page = "viewer"], 0)

\* a show_patients that stops the video and keeps the recording
show_patients_keeping_frames(w) == stop_video([w EXCEPT !.page = "patients"])

\* MainWindow.show_patients
show_patients(w) ==
    [stop_video([w EXCEPT !.page = "patients"])
     EXCEPT !.current_echo_frames = NoneVal, !.current_echo_metadata = NoneVal]

\* MainWindow.play_next_frame
play_next_frame(w) ==
    IF FrameCount(w) = 0
    THEN [w EXCEPT !.video_timer.active = FALSE,
                   !.is_video_playing = FALSE,
                   !.play_pause_button.text = "Play"]
    ELSE LET shown == display_frame(w, w.current_frame_index)
             next_index == IF w.current_frame_index + 1 >= FrameCount(w)
                           THEN 0 ELSE w.current_frame_index + 1
         IN update_frame_label(
                [shown EXCEPT !.current_frame_index = next_index,
                              !.frame_slider = SliderSetValue(@, next_index)])

\* MainWindow._apply_playback_speed
apply_playback_speed(w) ==
    IF w.echo_fps # 0
    THEN [w EXCEPT !.video_timer.interval = FrameInterval(w.echo_fps, w.playback_speed)]
    ELSE w

\* the second half of toggle_video_playback: pause when playing, else play
PauseOrPlay(w) ==
    IF w.is_video_playing
    THEN [w EXCEPT !.video_timer.active = FALSE,
                   !.is_video_playing = FALSE,
                   !.play_pause_button.text = "Play"]
    ELSE [apply_playback_speed([w EXCEPT !.autoplay_timer.active = FALSE])
          EXCEPT !.video_timer.active = TRUE,
                 !.is_video_playing = TRUE,
                 !.play_pause_button.text = "Pause"]

\* MainWindow.toggle_video_playback
toggle_video_playback(w) ==
    IF FrameCount(w) = 0
    THEN With(IF w.current_patient # NoPatient
              THEN display_echo(w, w.current_patient) ELSE w,
              LAMBDA reloaded :
              IF FrameCount(reloaded) = 0 THEN reloaded ELSE PauseOrPlay(reloaded))
    ELSE PauseOrPlay(w)

\* MainWindow._start_echo_autoplay, run when the single-shot timer fires
start_echo_autoplay(w) ==
    IF w.current_modality_label # "Echocardiography" THEN w
    ELSE IF FrameCount(w) = 0 THEN w
    ELSE IF w.is_video_playing THEN w
    ELSE [w EXCEPT !.video_timer.active = TRUE,
                   !.is_video_playing = TRUE,
                   !.play_pause_button.text = "Pause"]

\* MainWindow.on_frame_slider_moved
on_frame_slider_moved(w, value) ==
    IF w.current_echo_frames = NoneVal THEN w
    ELSE update_frame_label(
             display_frame([w EXCEPT !.current_frame_index = value], value))

\* an on_frame_slider_pressed that clears the flag and leaves the timer running
on_frame_slider_pressed_timer_running(w) ==
    IF w.is_video_playing
    THEN [w EXCEPT !.is_video_playing = FALSE, !.play_pause_button.text = "Play"]
    ELSE w

\* MainWindow.on_frame_slider_pressed
on_frame_slider_pressed(w) ==
    IF w.is_video_playing
    THEN [w EXCEPT !.video_timer.active = FALSE,
                   !.is_video_playing = FALSE,
                   !.play_pause_button.text = "Play"]
    ELSE w

\* MainWindow.on_frame_slider_released
on_frame_slider_released(w) == w

\* MainWindow.on_speed_changed, the speed in hundredths
on_speed_changed(w, speed) ==
    LET changed == [w EXCEPT !.playback_speed = speed]
    IN IF w.is_video_playing THEN apply_playback_speed(changed) ELSE changed

\* the fields MainWindow.__init__ and build_viewer_page set, before the
\* closing call of show_patients
MainWindowFields ==
    [page |-> "patients",
     current_patient |-> NoPatient,
     current_modality_label |-> NoModality,
     current_echo_frames |-> NoneVal,
     current_echo_metadata |-> NoneVal,
     current_frame_index |-> 0,
     is_video_playing |-> FALSE,
     video_timer |-> [active |-> FALSE, interval |-> 0],
     autoplay_timer |-> [active |-> FALSE],
     autoplay_checkbox |-> TRUE,
     playback_speed |-> 100,
     echo_fps |-> 0,
     frame_slider |-> [value |-> 0, maximum |-> 99, enabled |-> TRUE, down |-> FALSE],
     play_pause_button |-> [text |-> "Play", enabled |-> TRUE],
     stop_button |-> [enabled |-> TRUE],
     controls_visible |-> FALSE,
     frame_label |-> [index |-> 0, total |-> 0],
     content_stack |-> "image_viewer",
     echo_label |-> NullPixmap,
     image_viewer |-> NullPixmap,
     ecg_viewer |-> ECGViewerWidget]

\* MainWindow.__init__
MainWindow == show_patients(MainWindowFields)

-----------------------------------------------------------------------------
(* The inputs the model draws from *)

SeqsUpTo(S, n) == UNION {[1..k -> S] : k \in 0..n}

NameX1Avi == NameX1 \o ExtAvi
NameX10Avi == NameX10 \o ExtAvi
NameX10Mp4 == NameX10 \o ExtMp4
NameYAvi == NameY \o ExtAvi
NameX1bAvi == NameX1 \o <<".", "b">> \o ExtAvi
NameEcgPng == EcgPrefix \o <<"1">> \o ExtPng
NameAngioPng == <<"a">> \o ExtPng

Patients == {"p001", "p002"}
Modalities == {"ECG", "Cardiac Angiography", "Echocardiography", "MRI"}

\* rows of VolumeTracings.csv
TracingRow(f, frame, c) ==
    [FileName |-> f, Frame |-> frame,
     X1 |-> Num(c[1]), Y1 |-> Num(c[2]), X2 |-> Num(c[3]), Y2 |-> Num(c[4])]
TracingFileNames == {NameX1, NameX1Avi, NameX10Avi}
FrameCells == {Num(n) : n \in 0..MaxFrameNo} \cup {NaN}
SegmentCoords == {<<10, 20, 30, 40>>, <<-5, 1000, 50, 60>>}
TracingRows ==
    {TracingRow(f, frame, c) : f \in TracingFileNames, frame \in FrameCells,
                               c \in SegmentCoords}
TracingLookups == {NameX1Avi, NameX10Avi, NameYAvi, NameX1bAvi}

\* rows of FileList.csv
FilelistRow(f, ef, fh) ==
    [FileName |-> f, EF |-> ef, ESV |-> Num(30), EDV |-> Num(90),
     FrameHeight |-> fh, FrameWidth |-> Num(112), FPS |-> Num(50),
     NumberOfFrames |-> Num(3)]
FilelistFileNames == {NameX1, NameX1Avi, NameX10}
FilelistRows ==
    {FilelistRow(f, ef, fh) : f \in FilelistFileNames, ef \in {Num(55), Num(60)},
                              fh \in {Num(112), NaN}}
FilelistLookups == {NameX1, NameX1Avi, NameY}

\* a few small CSV files, and the ways a CSV file can be missing or broken
SmallTracingFiles ==
    {Absent, Unparseable, CsvFile(<<>>),
     CsvFile(<<TracingRow(NameX1Avi, Num(1), <<10, 20, 30, 40>>)>>),
     CsvFile(<<TracingRow(NameX1, NaN, <<10, 20, 30, 40>>)>>)}
SmallFilelistFiles ==
    {Absent, Unparseable, CsvFile(<<>>),
     CsvFile(<<FilelistRow(NameX1, Num(55), Num(112))>>),
     CsvFile(<<FilelistRow(NameX1, Num(55), NaN)>>)}

\* files of a patient directory
File(name, content) == [name |-> name, content |-> content]
FilePool ==
    {File(NameEcgPng, c) : c \in {ImageContent(<<2, 3>>, "L"), Corrupt}}
    \cup {File(NameAngioPng, c) : c \in {ImageContent(<<2, 3, 3>>, "RGB"), Corrupt}}
    \cup {File(NameX1Avi, c) :
             c \in {VideoContent(n, IF n = 0 THEN 0 ELSE 50) : n \in 0..MaxFrames}
                   \cup {Corrupt}}
    \cup {File(NameX10Mp4, c) : c \in {VideoContent(1, 50)}}
DistinctNames(files) ==
    \A i, j \in 1..Len(files) : i # j => files[i].name # files[j].name
Directories == {files \in SeqsUpTo(FilePool, MaxFiles) : DistinctNames(files)}

-----------------------------------------------------------------------------
(* The loader as a state machine: construction, then calls in any order *)

Call(op, patient, name, modality) ==
    [op |-> op, patient |-> patient, name |-> name, modality |-> modality]

\* a returned value or an exception leaving the method
AsResult(r) == IF IsRaise(r) THEN r ELSE Returns(r.value, <<>>)

InitLoader(fl_file, vt_file, d) ==
    /\ disk_filelist = fl_file
    /\ disk_tracings = vt_file
    /\ dirs = d
    /\ csv_at_init = [filelist |-> fl_file, tracings |-> vt_file]
    /\ filelist_csv = PatientDataLoader(fl_file, vt_file).filelist_csv
    /\ volume_tracings_csv = PatientDataLoader(fl_file, vt_file).volume_tracings_csv
    /\ call = Call("__init__", "", <<>>, "")
    /\ result = Returns(NoneVal, <<>>)
    /\ win = MainWindow
    /\ vis = NoObjects

\* a lookup that runs the reset and reload written after its return statement
TablesAfterLookupReloading(fl_csv, vt_csv, fl_file, vt_file) ==
    load_csv_metadata(NoneVal, NoneVal, fl_file, vt_file)

\* what a lookup leaves in the loader's two table fields: it returns at
\* line 124, so the reset and reload written after the return never run
TablesAfterLookup(fl_csv, vt_csv, fl_file, vt_file) ==
    [filelist_csv |-> fl_csv, volume_tracings_csv |-> vt_csv]

GetFilelistMetadata(filename) ==
    /\ call' = Call("get_filelist_metadata", "", filename, "")
    /\ result' = AsResult(get_filelist_metadata(filelist_csv, filename))
    /\ UNCHANGED <<loader_vars, disk_vars, csv_at_init, win, vis>>

GetVolumeTracings(filename) ==
    /\ call' = Call("get_volume_tracings", "", filename, "")
    /\ result' = AsResult(get_volume_tracings(volume_tracings_csv, filename))
    /\ filelist_csv' = TablesAfterLookup(filelist_csv, volume_tracings_csv,
                            disk_filelist, disk_tracings).filelist_csv
    /\ volume_tracings_csv' = TablesAfterLookup(filelist_csv, volume_tracings_csv,
                            disk_filelist, disk_tracings).volume_tracings_csv
    /\ UNCHANGED <<disk_vars, csv_at_init, win, vis>>

LoadEcg(patient_id) ==
    /\ call' = Call("load_ecg", patient_id, <<>>, "")
    /\ result' = load_ecg(dirs[patient_id])
    /\ UNCHANGED <<loader_vars, disk_vars, csv_at_init, win, vis>>

LoadEcho(patient_id) ==
    /\ call' = Call("load_echo", patient_id, <<>>, "")
    /\ result' = load_echo(dirs[patient_id], filelist_csv, volume_tracings_csv)
    /\ UNCHANGED <<loader_vars, disk_vars, csv_at_init, win, vis>>

LoadAngio(patient_id) ==
    /\ call' = Call("load_angio", patient_id, <<>>, "")
    /\ result' = load_angio(dirs[patient_id])
    /\ UNCHANGED <<loader_vars, disk_vars, csv_at_init, win, vis>>

LoadPatientData(patient_id) ==
    /\ call' = Call("load_patient_data", patient_id, <<>>, "")
    /\ result' = load_patient_data(dirs[patient_id], filelist_csv, volume_tracings_csv)
    /\ UNCHANGED <<loader_vars, disk_vars, csv_at_init, win, vis>>

GetModalityImage(patient_id, modality) ==
    /\ call' = Call("get_modality_image", patient_id, <<>>, modality)
    /\ result' = get_modality_image(dirs[patient_id], modality)
    /\ UNCHANGED <<loader_vars, disk_vars, csv_at_init, win, vis>>

\* the environment: a CSV file is deleted while the program runs
FilelistCsvDeleted ==
    /\ disk_filelist # Absent
    /\ disk_filelist' = Absent
    /\ UNCHANGED <<disk_tracings, dirs, loader_vars, call, result, csv_at_init, win, vis>>

TracingsCsvDeleted ==
    /\ disk_tracings # Absent
    /\ disk_tracings' = Absent
    /\ UNCHANGED <<disk_filelist, dirs, loader_vars, call, result, csv_at_init, win, vis>>

NoFiles == [p \in Patients |-> <<>>]
DirsWith(files) == [p \in Patients |-> IF p = "p001" THEN files ELSE <<>>]

\* every call of the loader, on a few small tables and directories
Init ==
    \E fl_file \in SmallFilelistFiles, vt_file \in SmallTracingFiles,
       files \in {<<>>, <<File(NameX1Avi, VideoContent(1, 50)),
                          File(NameAngioPng, ImageContent(<<2, 3, 3>>, "RGB"))>>} :
        InitLoader(fl_file, vt_file, DirsWith(files))

Next ==
    \/ \E filename \in FilelistLookups : GetFilelistMetadata(filename)
    \/ \E filename \in TracingLookups : GetVolumeTracings(filename)
    \/ \E patient_id \in Patients :
          \/ LoadEcg(patient_id)
          \/ LoadEcho(patient_id)
          \/ LoadAngio(patient_id)
          \/ LoadPatientData(patient_id)
          \/ \E modality \in Modalities : GetModalityImage(patient_id, modality)
    \/ FilelistCsvDeleted
    \/ TracingsCsvDeleted

Spec == Init /\ [][Next]_vars

\* the three loaders, on every small directory
InitLoad ==
    \E fl_file \in SmallFilelistFiles \ {Unparseable, CsvFile(<<>>)},
       vt_file \in SmallTracingFiles \ {Unparseable, CsvFile(<<>>)},
       files \in Directories :
        InitLoader(fl_file, vt_file, DirsWith(files))

NextLoad ==
    \E patient_id \in Patients :
        \/ LoadEcg(patient_id)
        \/ LoadEcho(patient_id)
        \/ LoadAngio(patient_id)
        \/ LoadPatientData(patient_id)

SpecLoad == InitLoad /\ [][NextLoad]_vars

\* get_volume_tracings on every table of at most MaxRows rows
InitTracings ==
    \E vt_file \in {Absent} \cup {CsvFile(rows) : rows \in SeqsUpTo(TracingRows, MaxRows)} :
        InitLoader(Absent, vt_file, NoFiles)

NextTracings == \E filename \in TracingLookups : GetVolumeTracings(filename)

SpecTracings == InitTracings /\ [][NextTracings]_vars

\* get_filelist_metadata on every table of at most MaxRows rows
InitFilelist ==
    \E fl_file \in {Absent} \cup {CsvFile(rows) : rows \in SeqsUpTo(FilelistRows, MaxRows)} :
        InitLoader(fl_file, Absent, NoFiles)

NextFilelist == \E filename \in FilelistLookups : GetFilelistMetadata(filename)

SpecFilelist == InitFilelist /\ [][NextFilelist]_vars

-----------------------------------------------------------------------------
(* The viewer window as a state machine: the user's clicks and the two       *)
(* timers, each running the handler connected to it                          *)

Speeds == {25, 50, 75, 100}

\* a widget of the viewer page can be clicked: the page is shown and the mouse
\* is not held down on the slider handle
ViewerPageUsable == win.page = "viewer" /\ ~win.frame_slider.down
ControlsUsable == ViewerPageUsable /\ win.controls_visible

Handled(w) ==
    /\ win' = w
    /\ UNCHANGED <<disk_vars, loader_vars, call, result, csv_at_init, vis>>

\* patient_list.itemClicked
PatientClicked(patient_id) ==
    /\ win.page = "patients"
    /\ Handled(on_patient_selected(win, patient_id))

\* back_button.clicked
BackClicked ==
    /\ ViewerPageUsable
    /\ Handled(show_patients(win))

\* modality_buttons[row].clicked
ModalityClicked(row) ==
    /\ ViewerPageUsable
    /\ Handled(set_modality(win, row))

\* play_pause_button.clicked
PlayPauseClicked ==
    /\ ControlsUsable
    /\ win.play_pause_button.enabled
    /\ Handled(toggle_video_playback(win))

\* stop_button.clicked
StopClicked ==
    /\ ControlsUsable
    /\ win.stop_button.enabled
    /\ Handled(stop_video(win))

\* the autoplay check box is clicked; nothing is connected to it
AutoplayToggled ==
    /\ ControlsUsable
    /\ Handled([win EXCEPT !.autoplay_checkbox = ~@])

\* speed_combo.currentTextChanged
SpeedChanged(speed) ==
    /\ ControlsUsable
    /\ speed # win.playback_speed
    /\ Handled(on_speed_changed(win, speed))

\* frame_slider.sliderPressed: the mouse goes down on the handle
FrameSliderPressed ==
    /\ ControlsUsable
    /\ win.frame_slider.enabled
    /\ Handled(on_frame_slider_pressed([win EXCEPT !.frame_slider.down = TRUE]))

\* frame_slider.sliderMoved: the handle is dragged to another value
FrameSliderMoved(value) ==
    /\ win.frame_slider.down
    /\ value \in 0..win.frame_slider.maximum
    /\ value # win.frame_slider.value
    /\ Handled(on_frame_slider_moved([win EXCEPT !.frame_slider.value = value], value))

\* frame_slider.sliderReleased
FrameSliderReleased ==
    /\ win.frame_slider.down
    /\ Handled(on_frame_slider_released([win EXCEPT !.frame_slider.down = FALSE]))

\* an arrow key or a click on the groove steps the slider: its value changes
\* and sliderMoved, emitted only while the handle is held, is not emitted
FrameSliderStepped(value) ==
    /\ ControlsUsable
    /\ win.frame_slider.enabled
    /\ value \in 0..win.frame_slider.maximum
    /\ value # win.frame_slider.value
    /\ Handled([win EXCEPT !.frame_slider.value = value])

\* video_timer.timeout
VideoTimerTimeout ==
    /\ win.video_timer.active
    /\ Handled(play_next_frame(win))

\* autoplay_timer.timeout, the timer being single-shot
AutoplayTimerTimeout ==
    /\ win.autoplay_timer.active
    /\ Handled(start_echo_autoplay([win EXCEPT !.autoplay_timer.active = FALSE]))

\* the recordings and annotation tables the viewer is run on
VideoX1 == File(NameX1Avi, VideoContent(3, 50))
ViewerDirs ==
    {[p \in Patients |->
        IF p = "p001"
        THEN <<File(NameEcgPng, ImageContent(<<2, 3>>, "L")),
               File(NameAngioPng, ImageContent(<<2, 3, 3>>, "RGB")), VideoX1>>
        ELSE files] :
     files \in {<<>>,
                <<File(NameYAvi, VideoContent(0, 0))>>,
                <<File(NameX10Avi, VideoContent(2, 50))>>}}
ViewerTracingFiles ==
    {CsvFile(<<TracingRow(NameX1Avi, Num(1), <<10, 20, 30, 40>>),
               TracingRow(NameX1Avi, Num(1), <<-5, 1000, 50, 60>>)>>),
     CsvFile(<<TracingRow(NameX1Avi, Num(0), <<10, 20, 30, 40>>),
               TracingRow(NameX1Avi, Num(2), <<-5, 1000, 50, 60>>),
               TracingRow(NameX1Avi, Num(7), <<50, 60, 10, 20>>)>>),
     CsvFile(<<TracingRow(NameX10Avi, Num(1), <<10, 20, 30, 40>>)>>)}
ViewerFilelistFile == CsvFile(<<FilelistRow(NameX1, Num(55), Num(112))>>)

InitViewer ==
    \E vt_file \in ViewerTracingFiles, d \in ViewerDirs :
        InitLoader(ViewerFilelistFile, vt_file, d)

NextViewer ==
    \/ \E patient_id \in Patients : PatientClicked(patient_id)
    \/ BackClicked
    \/ \E row \in 0..2 : ModalityClicked(row)
    \/ PlayPauseClicked
    \/ StopClicked
    \/ AutoplayToggled
    \/ \E speed \in Speeds : SpeedChanged(speed)
    \/ FrameSliderPressed
    \/ \E value \in 0..2 : FrameSliderMoved(value)
    \/ FrameSliderReleased
    \/ \E value \in 0..2 : FrameSliderStepped(value)
    \/ VideoTimerTimeout
    \/ AutoplayTimerTimeout

SpecViewer == InitViewer /\ [][NextViewer]_vars

-----------------------------------------------------------------------------
(* The ECG viewer widget as a state machine: calls of its methods and the   *)
(* clicks on its Return button and on its canvas                            *)

EcgCall(op, argument) == [op |-> op, argument |-> argument]

EcgHandled(op, argument, e, ret) ==
    /\ win' = [win EXCEPT !.ecg_viewer = e]
    /\ call' = EcgCall(op, argument)
    /\ result' = ret
    /\ UNCHANGED <<disk_vars, loader_vars, csv_at_init, vis>>

\* ecg_viewer.set_signal(signal, max_time)
SetSignal(signal, max_time) ==
    LET r == set_signal(win.ecg_viewer, signal, max_time)
    IN EcgHandled("set_signal", signal, r.widget, r.ret)

\* ecg_viewer.show_grid_mode(), called directly
ShowGridMode ==
    EcgHandled("show_grid_mode", NoneVal, show_grid_mode(win.ecg_viewer),
               Return(NoneVal))

\* back_button.clicked, the button being visible and enabled
ReturnClicked ==
    /\ win.ecg_viewer.back_button.visible
    /\ win.ecg_viewer.back_button.enabled
    /\ EcgHandled("back_button.clicked", NoneVal, show_grid_mode(win.ecg_viewer),
                  Return(NoneVal))

\* ecg_viewer.show_single_mode(lead_index)
ShowSingleMode(lead_index) ==
    EcgHandled("show_single_mode", Lead(lead_index),
               show_single_mode(win.ecg_viewer, lead_index), Return(NoneVal))

\* the axes a click on the canvas can fall in
AxesShown(e) ==
    CASE e.figure.layout = "grid" -> {GridAxes(i) : i \in 0..11}
      [] e.figure.layout = "single" -> {SingleAxes}
      [] OTHER -> {}

\* the canvas's button_press_event, inside one of the axes shown or outside
CanvasClicked(inaxes) ==
    /\ inaxes \in AxesShown(win.ecg_viewer) \cup {NoneVal}
    /\ EcgHandled("on_click", inaxes, on_click(win.ecg_viewer, inaxes),
                  Return(NoneVal))

\* the signals handed to set_signal: 12 leads of 0, 1 or 2 samples, and
\* arrays that are not 12 leads
Signal(shape) == [kind |-> "ndarray", dtype |-> "float64", shape |-> shape]
Signals ==
    {Signal(<<12, t>>) : t \in 0..2}
    \cup {Signal(<<12>>), Signal(<<11, 2>>), Signal(<<2, 12>>), Signal(<<12, 2, 1>>)}
MaxTimes == {1, 2000}
LeadIndexes == {-1, 0, 5, 11, 12}

InitEcg == InitLoader(Absent, Absent, NoFiles)

NextEcg ==
    \/ \E signal \in Signals, max_time \in MaxTimes : SetSignal(signal, max_time)
    \/ ShowGridMode
    \/ ReturnClicked
    \/ \E lead_index \in LeadIndexes : ShowSingleMode(lead_index)
    \/ \E inaxes \in {GridAxes(i) : i \in 0..11} \cup {SingleAxes, NoneVal} :
           CanvasClicked(inaxes)

SpecEcg == InitEcg /\ [][NextEcg]_vars

-----------------------------------------------------------------------------
(* PatientVisualizer called directly, on arrays the caller holds *)

\* the caller holds at most three objects
ObjectIds == 1..3

InitVisualizer(objects) ==
    /\ disk_filelist = Absent
    /\ disk_tracings = Absent
    /\ dirs = NoFiles
    /\ csv_at_init = [filelist |-> Absent, tracings |-> Absent]
    /\ filelist_csv = PatientDataLoader(Absent, Absent).filelist_csv
    /\ volume_tracings_csv = PatientDataLoader(Absent, Absent).volume_tracings_csv
    /\ win = MainWindow
    /\ call = [op |-> "__init__"]
    /\ result = Return(NoneVal)
    /\ vis = [NoObjects EXCEPT !.memory = objects]

\* the segments handed to draw_tracings_on_frame
Segment(x1, y1, x2, y2) ==
    [x1 |-> Num(x1), y1 |-> Num(y1), x2 |-> Num(x2), y2 |-> Num(y2)]
SegmentPool ==
    {Segment(-5, 1000, 3, 97), Segment(1, 1, 4, 4), Segment(4, 1, 1, 4),
     Segment(2, 2, 2, 2)}
SegmentLists == SeqsUpTo(SegmentPool, MaxSegments)

\* the frames drawn on: a small one, and one of 100 x 100
DrawFrames == {Frame(0, 5, 6), Frame(0, 100, 100)}

\* PatientVisualizer.draw_tracings_on_frame(memory[id], tracings)
DrawTracingsOnFrame(id, tracings) ==
    /\ id \in 1..Len(vis.memory)
    /\ Len(vis.memory) + 1 \in ObjectIds
    /\ LET r == draw_tracings_call(vis.memory, id, tracings)
       IN /\ vis' = [vis EXCEPT !.memory = r.memory]
          /\ result' = Return(r.ret)
    /\ call' = [op |-> "draw_tracings_on_frame", frame |-> id,
                tracings |-> tracings, before |-> vis.memory]
    /\ UNCHANGED <<disk_vars, loader_vars, csv_at_init, win>>

InitDraw == \E frame \in DrawFrames : InitVisualizer(<<frame>>)

NextDraw ==
    \E id \in ObjectIds, tracings \in SegmentLists : DrawTracingsOnFrame(id, tracings)

SpecDraw == InitDraw /\ [][NextDraw]_vars

\* the arrays handed to frame_to_pil_image and frame_to_temp_file
ArraysOf(dtype, shapes, values) ==
    UNION {{ndarray(dtype, shape, data) :
               data \in [1..(IF Len(shape) = 1 THEN shape[1]
                             ELSE IF Len(shape) = 2 THEN shape[1] * shape[2]
                             ELSE IF Len(shape) = 3 THEN shape[1] * shape[2] * shape[3]
                             ELSE shape[1] * shape[2] * shape[3] * shape[4]) -> values]} :
           shape \in shapes}
\* 0.0, 0.25, 0.5, 1.0, 50.0, 100.0 and 200.0, in quarters
FloatValues == {0, 1, 2, 4, 200, 400, 800}
ArrayPool ==
    ArraysOf("uint8", {<<1, 2>>, <<1, 1, 3>>, <<1, 1, 4>>, <<2>>, <<1, 1, 1>>,
                       <<1, 1, 2>>, <<1, 1, 5>>, <<1, 1, 1, 2>>}, {7, 255})
    \cup ArraysOf("float32", {<<1, 2>>, <<1, 1, 3>>, <<0, 2>>}, FloatValues)
    \cup ArraysOf("float64", {<<1, 2>>, <<1, 1, 3>>, <<0, 2>>}, FloatValues)
    \cup ArraysOf("uint16", {<<1, 2>>}, {0, 256, 65280, 65535})
    \cup ArraysOf("int16", {<<1, 2>>}, {-1, 0, 255, 256, 300})
    \cup ArraysOf("int32", {<<1, 2>>}, {0, 255, 256, 70000})
    \cup ArraysOf("uint32", {<<1, 2>>}, {0, 255, 256, 70000})

\* the caller of the conversions holds at most four objects
CanonIds == 1..4

IsArray(object) == object.kind = "ndarray"
IsImage(object) == object.kind = "Image"

\* PatientVisualizer.frame_to_pil_image(memory[id])
FrameToPilImage(id) ==
    /\ id \in 1..Len(vis.memory)
    /\ IsArray(vis.memory[id])
    /\ LET r == frame_to_pil_image_call(vis.memory, id)
       IN /\ Len(r.memory) \in CanonIds
          /\ vis' = [vis EXCEPT !.memory = r.memory]
          /\ result' = r.ret
    /\ call' = [op |-> "frame_to_pil_image", frame |-> id, before |-> vis.memory]
    /\ UNCHANGED <<disk_vars, loader_vars, csv_at_init, win>>

\* PatientVisualizer.frame_to_temp_file(memory[id])
FrameToTempFile(id) ==
    /\ id \in 1..Len(vis.memory)
    /\ IsArray(vis.memory[id])
    /\ LET r == frame_to_temp_file_call(vis, id)
       IN /\ vis' = r.vis
          /\ result' = r.ret
    /\ call' = [op |-> "frame_to_temp_file", frame |-> id, before |-> vis.memory]
    /\ UNCHANGED <<disk_vars, loader_vars, csv_at_init, win>>

\* np.array(memory[id]) of an image the caller holds
NpArray(id) ==
    /\ id \in 1..Len(vis.memory)
    /\ IsImage(vis.memory[id])
    /\ Len(vis.memory) + 1 \in CanonIds
    /\ vis' = [vis EXCEPT !.memory = Append(@, np_array(vis.memory[id]))]
    /\ result' = Return(Len(vis.memory) + 1)
    /\ call' = [op |-> "np.array", frame |-> id, before |-> vis.memory]
    /\ UNCHANGED <<disk_vars, loader_vars, csv_at_init, win>>

InitCanon == \E frame \in ArrayPool : InitVisualizer(<<frame>>)

NextCanon ==
    \E id \in CanonIds :
        \/ FrameToPilImage(id)
        \/ vis.temp_files = <<>> /\ FrameToTempFile(id)
        \/ NpArray(id)

SpecCanon == InitCanon /\ [][NextCanon]_vars

\* PatientVisualizer.plot_ecg(memory[id])
PlotEcg(id) ==
    /\ id \in 1..Len(vis.memory)
    /\ IsArray(vis.memory[id])
    /\ LET r == plot_ecg_call(vis, id)
       IN /\ vis' = r.vis
          /\ result' = r.ret
    /\ call' = [op |-> "plot_ecg", frame |-> id, before |-> vis.memory]
    /\ UNCHANGED <<disk_vars, loader_vars, csv_at_init, win>>

\* PatientVisualizer.cleanup_temp_files()
CleanupTempFiles ==
    /\ vis' = cleanup_temp_files(vis)
    /\ result' = Return(NoneVal)
    /\ call' = [op |-> "cleanup_temp_files", frame |-> 0, before |-> vis.memory]
    /\ UNCHANGED <<disk_vars, loader_vars, csv_at_init, win>>

\* the arrays a script hands to one visualizer: an image, a float image, a
\* signal, and an array of a shape no image can be made of
TempArrays ==
    {ndarray("uint8", <<1, 2>>, <<7, 255>>),
     ndarray("float32", <<1, 2>>, <<2, 4>>),
     ndarray("float64", <<2>>, <<1, 2>>),
     ndarray("uint8", <<1, 1, 5>>, <<7, 7, 7, 7, 7>>)}

InitTemp == \E frame \in TempArrays : InitVisualizer(<<frame>>)

NextTemp ==
    \/ Len(vis.tmp) < MaxTempFiles /\ FrameToTempFile(1)
    \/ Len(vis.tmp) < MaxTempFiles /\ PlotEcg(1)
    \/ CleanupTempFiles

SpecTemp == InitTemp /\ [][NextTemp]_vars

-----------------------------------------------------------------------------
(* Claims about the loaders *)

LoadOps == {"load_ecg", "load_echo", "load_angio"}

\* the files the glob of a loader matches, in listing order
Globbed(op, files) ==
    CASE op = "load_ecg" -> SelectSeq(files, IsEcgPng)
      [] op = "load_angio" -> SelectSeq(files, IsPng)
      [] op = "load_echo" -> VideoFiles(files)

\* the file the loader picked cannot be decoded, or its metadata join raises
TryBodyRaises(op, files) ==
    /\ Globbed(op, files) # <<>>
    /\ CASE op = "load_ecg" -> IsRaise(ecg_try(Globbed(op, files)[1]))
         [] op = "load_angio" -> IsRaise(angio_try(Globbed(op, files)[1]))
         [] op = "load_echo" ->
              IsRaise(echo_try(Globbed(op, files)[1], filelist_csv, volume_tracings_csv))

\* C1: load_echo returns None when the directory holds no *.mp4 or *.avi file,
\* and a pair (frame list of length 0, metadata) when a container exists but
\* decodes to no frames, so the caller can tell the two apart.
C1_NotFoundVersusEmpty ==
    call.op = "load_echo" =>
        LET video_files == VideoFiles(dirs[call.patient])
        IN /\ video_files = <<>> => result.value = NoneVal
           /\ ( /\ video_files # <<>>
                /\ video_files[1].content.kind = "video"
                /\ video_files[1].content.frames = 0 )
              => /\ result.value.kind = "tuple"
                 /\ Len(result.value.data) = 0

\* C2: a loader returns the not-found value only when no file matches its
\* glob; a file that matches but cannot be read gives a different outcome.
C2_NotFoundOnlyWhenNoFileMatches ==
    (call.op \in LoadOps /\ result.kind = "return" /\ result.value = NoneVal)
        => Globbed(call.op, dirs[call.patient]) = <<>>

\* C3: no failure while decoding or joining metadata leaves a loader as an
\* exception; each is returned as a pair (None, message).
C3_FailuresReturnNoneAndMessage ==
    call.op \in LoadOps =>
        /\ result.kind = "return"
        /\ TryBodyRaises(call.op, dirs[call.patient])
              => /\ result.value.kind = "tuple"
                 /\ result.value.data = NoneVal

\* the part of a file name before its first '.'
BeforeFirstDot(f) ==
    CHOOSE p \in {SubSeq(f, 1, n) : n \in 0..Len(f)} :
        /\ \A i \in 1..Len(p) : p[i] # Dot
        /\ Len(p) = Len(f) \/ f[Len(p) + 1] = Dot

\* the rows the two strategies of the annotation lookup give for a file name
ExactRows(rows, f) == {i \in 1..Len(rows) : rows[i].FileName = f}
FallbackRows(rows, f) ==
    {i \in 1..Len(rows) : StartsWith(rows[i].FileName, BeforeFirstDot(f))}
ChosenRows(rows, f) ==
    IF ExactRows(rows, f) # {} THEN ExactRows(rows, f) ELSE FallbackRows(rows, f)

\* the number of segments an index holds under the given keys
RECURSIVE TotalSegments(_, _)
TotalSegments(index, keys) ==
    IF keys = {} THEN 0
    ELSE LET k == CHOOSE y \in keys : TRUE
         IN Len(index[k]) + TotalSegments(index, keys \ {k})

SegmentOf(row) == [x1 |-> row.X1, y1 |-> row.Y1, x2 |-> row.X2, y2 |-> row.Y2]

Nth(S, j) == CHOOSE i \in S : Cardinality({m \in S : m <= i}) = j

\* C5: the index groups the matching rows by Frame: its keys are the Frame
\* values of those rows, and under each key are the segments of the rows of
\* that frame, each once, in table order.
C5_GroupedByFrameInRowOrder ==
    (call.op = "get_volume_tracings" /\ result.kind = "return"
     /\ volume_tracings_csv # NoneVal) =>
        LET rows == volume_tracings_csv.rows
            matching == MatchingTracingRows(volume_tracings_csv, call.name)
            OfFrame(k) == {i \in matching : rows[i].Frame = Num(k)}
        IN /\ DOMAIN result.value = {rows[i].Frame.v : i \in matching}
           /\ \A k \in DOMAIN result.value :
                /\ Len(result.value[k]) = Cardinality(OfFrame(k))
                /\ \A j \in 1..Len(result.value[k]) :
                     result.value[k][j] = SegmentOf(rows[Nth(OfFrame(k), j)])

\* two rows of one frame with different coordinates are returned in table order
C5_Witness ==
    /\ call.op = "get_volume_tracings"
    /\ result.kind = "return"
    /\ \E k \in DOMAIN result.value :
         /\ Len(result.value[k]) = 2
         /\ result.value[k][1] # result.value[k][2]

\* C6: rows of one recording are never attributed to another: for two file
\* names with different stems the lookup never uses the same row for both.
C6_RowsBelongToOneRecording ==
    volume_tracings_csv # NoneVal =>
        \A f1, f2 \in TracingLookups :
            BeforeFirstDot(f1) # BeforeFirstDot(f2) =>
                MatchingTracingRows(volume_tracings_csv, f1)
                    \cap MatchingTracingRows(volume_tracings_csv, f2) = {}

C8_TablesLoadIndependently ==
    /\ csv_at_init.filelist.kind \in {"absent", "unparseable"} =>
          /\ filelist_csv = NoneVal
          /\ call.op = "get_filelist_metadata" => result = Returns(NoneVal, <<>>)
    /\ csv_at_init.tracings.kind \in {"absent", "unparseable"} =>
          /\ volume_tracings_csv = NoneVal
          /\ call.op = "get_volume_tracings" => result = Returns(EmptyDict, <<>>)
    /\ csv_at_init.filelist.kind = "csv" =>
          filelist_csv = DataFrame(csv_at_init.filelist.rows)
    /\ csv_at_init.tracings.kind = "csv" =>
          volume_tracings_csv = DataFrame(csv_at_init.tracings.rows)

\* FileList.csv did not parse, and a lookup in VolumeTracings.csv finds a row
C8_Witness ==
    /\ csv_at_init.filelist.kind = "unparseable"
    /\ call.op = "get_volume_tracings"
    /\ result.kind = "return"
    /\ DOMAIN result.value # {}

\* C9: no call changes the loader's tables, and every lookup answers from
\* the tables as they were loaded at construction.
C9_CallsLeaveLoaderUnchanged ==
    [][ /\ loader_vars' = loader_vars
        /\ call'.op = "get_filelist_metadata" =>
              result' = AsResult(get_filelist_metadata(
                            LoadCsv(NoneVal, csv_at_init.filelist), call'.name))
        /\ call'.op = "get_volume_tracings" =>
              result' = AsResult(get_volume_tracings(
                            LoadCsv(NoneVal, csv_at_init.tracings), call'.name))
      ]_vars

\* VolumeTracings.csv was deleted after construction and a lookup still finds
\* the rows loaded from it
C9_Witness ==
    /\ csv_at_init.tracings.kind = "csv"
    /\ disk_tracings = Absent
    /\ call.op = "get_volume_tracings"
    /\ result.kind = "return"
    /\ DOMAIN result.value # {}

-----------------------------------------------------------------------------
(* Claims about the viewer *)

\* a video is loaded in the viewer and one of its frames is on the label
FrameShown == win.current_echo_frames # NoneVal /\ win.echo_label.kind = "pixmap"
ShownFrame == win.echo_label.image

\* the annotation index of the loaded video, looked up in the table again
LoadedVideo == VideoFiles(dirs[win.current_patient])[1]
AnnotationIndex == get_volume_tracings(volume_tracings_csv, LoadedVideo.name).value

\* a coordinate moved to the nearest value of 0 .. limit-1
Nearest(v, limit) == IF v < 0 THEN 0 ELSE IF v > limit - 1 THEN limit - 1 ELSE v

\* the drawn segment is the stored one, its end points moved into the frame
DrawnFrom(drawn, segment, frame) ==
    /\ drawn.x1 = Nearest(segment.x1.v, frame.width)
    /\ drawn.y1 = Nearest(segment.y1.v, frame.height)
    /\ drawn.x2 = Nearest(segment.x2.v, frame.width)
    /\ drawn.y2 = Nearest(segment.y2.v, frame.height)

\* C10: for a loaded video, the displayed frame i carries drawn segments if
\* and only if i is a key of the video's annotation index, and then exactly
\* the segments stored under i, in their order; a frame whose index is not a
\* key is displayed with nothing drawn on it.
C10_OverlayIffFrameIsKey ==
    FrameShown =>
        LET i == ShownFrame.no
            drawn == ShownFrame.drawn
        IN /\ ShownFrame = [win.current_echo_frames.items[i + 1] EXCEPT !.drawn = drawn]
           /\ IF i \in DOMAIN AnnotationIndex
              THEN /\ Len(drawn) = Len(AnnotationIndex[i])
                   /\ Len(drawn) > 0
                   /\ \A j \in 1..Len(drawn) :
                         DrawnFrom(drawn[j], AnnotationIndex[i][j], ShownFrame)
              ELSE drawn = <<>>

\* frame 1 of the 3-frame video is displayed with its 2 segments, while
\* frames 0 and 2 have no entry in the index
C10_Witness ==
    /\ FrameShown
    /\ Len(win.current_echo_frames.items) = 3
    /\ DOMAIN AnnotationIndex = {1}
    /\ ShownFrame.no = 1
    /\ Len(ShownFrame.drawn) = 2

-----------------------------------------------------------------------------
(* Claims about the overlay *)

\* the last call was draw_tracings_on_frame; the array it was given, as it
\* was before the call, and the array it returned
DrawCalled == call.op = "draw_tracings_on_frame"
DrawInput == call.before[call.frame]
DrawResult == vis.memory[result.value]

\* C11: draw_tracings_on_frame returns a new image and leaves the frame it was
\* given, like every other array held, unchanged, whatever the segments; the
\* returned image is the input picture with the segments of this call only,
\* so that with an empty list it is the input picture again.
C11_DrawReturnsNewImage ==
    DrawCalled =>
        /\ result.value \notin 1..Len(call.before)
        /\ \A k \in 1..Len(call.before) : vis.memory[k] = call.before[k]
        /\ Len(DrawResult.drawn) = Len(DrawInput.drawn) + Len(call.tracings)
        /\ SubSeq(DrawResult.drawn, 1, Len(DrawInput.drawn)) = DrawInput.drawn
        /\ (call.tracings = <<>> => DrawResult = DrawInput)

\* the base frame was rendered with an overlay, then again with none, and the
\* second image has the pixels of the base frame
C11_Witness ==
    /\ DrawCalled
    /\ Len(vis.memory) = 3
    /\ call.frame = 1
    /\ call.tracings = <<>>
    /\ vis.memory[2].drawn # <<>>
    /\ vis.memory[3] = vis.memory[1]
    /\ vis.memory[1].drawn = <<>>

\* the segment as the call must draw it: each coordinate at the nearest value
\* inside the frame
NearestSegment(frame, segment) ==
    [x1 |-> Nearest(segment.x1.v, frame.width),
     y1 |-> Nearest(segment.y1.v, frame.height),
     x2 |-> Nearest(segment.x2.v, frame.width),
     y2 |-> Nearest(segment.y2.v, frame.height)]

\* the j-th segment of the call as the returned image records it
DrawnOfCall(j) == DrawResult.drawn[Len(DrawInput.drawn) + j]

\* C12: every end point of every segment is clamped, x to [0, w-1] and y to
\* [0, h-1], each coordinate by itself, before it is drawn: a point outside
\* the frame is moved to the nearest edge and still drawn, and a point with
\* integer coordinates inside the frame is drawn where it is.
C12_EndpointsClampedToFrame ==
    DrawCalled =>
        \A j \in 1..Len(call.tracings) :
            LET segment == call.tracings[j]
                d == DrawnOfCall(j)
                inside(v, limit) == 0 <= v /\ v <= limit - 1
            IN /\ d = NearestSegment(DrawInput, segment)
               /\ inside(d.x1, DrawInput.width) /\ inside(d.x2, DrawInput.width)
               /\ inside(d.y1, DrawInput.height) /\ inside(d.y2, DrawInput.height)
               /\ inside(segment.x1.v, DrawInput.width) => d.x1 = segment.x1.v
               /\ inside(segment.y1.v, DrawInput.height) => d.y1 = segment.y1.v
               /\ inside(segment.x2.v, DrawInput.width) => d.x2 = segment.x2.v
               /\ inside(segment.y2.v, DrawInput.height) => d.y2 = segment.y2.v
               /\ PixelAfter(DrawResult, Len(DrawInput.drawn) + j, <<d.x1, d.y1>>) # Undrawn
               /\ PixelAfter(DrawResult, Len(DrawInput.drawn) + j, <<d.x2, d.y2>>) # Undrawn

\* the end point (-5, 1000) was drawn at (0, 99) on the frame of 100 x 100
C12_Witness ==
    /\ DrawCalled
    /\ DrawInput = Frame(0, 100, 100)
    /\ call.tracings = <<Segment(-5, 1000, 3, 97)>>
    /\ DrawnOfCall(1) = [x1 |-> 0, y1 |-> 99, x2 |-> 3, y2 |-> 97]
    /\ Pixel(DrawResult, <<0, 99>>) # Undrawn

\* the pixels the three cv2 calls of one segment write, and the colour each
\* has when the segment is drawn alone
Footprint(frame, d) ==
    LinePixels(d.x1, d.y1, d.x2, d.y2)
    \cup CirclePixels(frame, d.x1, d.y1) \cup CirclePixels(frame, d.x2, d.y2)
ColourAlone(frame, d, p) == Pixel([frame EXCEPT !.drawn = <<d>>], p)

\* C13: the segments are drawn in the order of the sequence, each over what
\* was drawn before: a pixel that two segments of a call both cover shows, when
\* no segment after them covers it, the colour the later of the two writes.
C13_LaterSegmentOnTop ==
    DrawCalled =>
        \A i, j \in 1..Len(call.tracings) :
            i < j =>
                LET di == NearestSegment(DrawInput, call.tracings[i])
                    dj == NearestSegment(DrawInput, call.tracings[j])
                IN \A p \in Footprint(DrawInput, di) \cap Footprint(DrawInput, dj) :
                       (\A k \in (j + 1)..Len(call.tracings) :
                            p \notin Footprint(DrawInput,
                                         NearestSegment(DrawInput, call.tracings[k])))
                       => Pixel(DrawResult, p) = ColourAlone(DrawInput, dj, p)

\* two segments were drawn that write different colours to a pixel they share
C13_Witness ==
    /\ DrawCalled
    /\ Len(call.tracings) = 2
    /\ LET d1 == NearestSegment(DrawInput, call.tracings[1])
           d2 == NearestSegment(DrawInput, call.tracings[2])
       IN \E p \in Footprint(DrawInput, d1) \cap Footprint(DrawInput, d2) :
              /\ ColourAlone(DrawInput, d1, p) # ColourAlone(DrawInput, d2, p)
              /\ Pixel(DrawResult, p) = ColourAlone(DrawInput, d2, p)

-----------------------------------------------------------------------------
(* Claims about the conversion to an 8-bit image *)

\* the last call was frame_to_pil_image; the array it was given, as it was
\* before the call, and the image it returned
CanonCalled == call.op = "frame_to_pil_image"
CanonInput == call.before[call.frame]
CanonImage == vis.memory[result.value]

\* rank 2, or rank 3 with 3 or 4 channels
Supported(shape) == Len(shape) = 2 \/ (Len(shape) = 3 /\ shape[3] \in {3, 4})

\* the image has the layout of the array: grayscale, RGB or RGBA, and its size
SameLayout(img, shape) ==
    /\ img.size = <<shape[2], shape[1]>>
    /\ img.mode = IF Len(shape) = 2 THEN "L" ELSE IF shape[3] = 3 THEN "RGB" ELSE "RGBA"

\* the call returned an image whose i-th value is f of the i-th input value
ValuesBecome(f(_)) ==
    /\ ~IsRaise(result)
    /\ SameLayout(CanonImage, CanonInput.shape)
    /\ Len(CanonImage.data) = Len(CanonInput.data)
    /\ \A i \in 1..Len(CanonInput.data) : CanonImage.data[i] = f(CanonInput.data[i])

\* C14: an array that is already 8-bit unsigned, grayscale, RGB or RGBA, comes
\* back as an image with the same values and the same shape, and converting
\* that image again gives the same image.
C14_Uint8PassesThrough ==
    (CanonCalled /\ CanonInput.dtype = "uint8" /\ Supported(CanonInput.shape)) =>
        LET same(v) == v
        IN /\ ValuesBecome(same)
           /\ np_array(CanonImage) = CanonInput
           /\ frame_to_pil_image(np_array(CanonImage)) = frame_to_pil_image(CanonInput)

\* an 8-bit RGB array with the values 7, 255, 7 was converted
C14_Witness ==
    /\ CanonCalled
    /\ CanonInput = ndarray("uint8", <<1, 1, 3>>, <<7, 255, 7>>)
    /\ ~IsRaise(result)
    /\ CanonImage.data = <<7, 255, 7>>

\* a float frame with at least one value, in a supported layout
FloatCalled ==
    /\ CanonCalled
    /\ IsFloat(CanonInput.dtype)
    /\ Len(CanonInput.data) > 0
    /\ Supported(CanonInput.shape)

\* round(n / d) and the integer part of n / d, for n >= 0 and d > 0
Rounded(n, d) == (2 * n + d) \div (2 * d)
Truncated(n, d) == n \div d

\* C15 as stated: a float frame with maximum m gives round(v * 255) for every
\* value v when m <= 1.0 and round(v / m * 255) when m > 1.0.
C15_FloatRescaleRounds ==
    FloatCalled =>
        LET m == ArrayMax(CanonInput)
            f(v) == IF m <= 4 THEN Rounded(v * 255, 4) ELSE Rounded(v * 255, m)
        IN ValuesBecome(f)

\* C15, amended: a float frame with maximum m gives the integer part of
\* v * 255 for every value v when m <= 1.0 and the integer part of
\* v / m * 255 when m > 1.0.
C15_FloatRescaleTruncates ==
    FloatCalled =>
        LET m == ArrayMax(CanonInput)
            f(v) == IF m <= 4 THEN Truncated(v * 255, 4) ELSE Truncated(v * 255, m)
        IN ValuesBecome(f)

\* the frame (50.0, 200.0) was converted to (63, 255)
C15_Witness ==
    /\ FloatCalled
    /\ CanonInput.shape = <<1, 2>>
    /\ CanonInput.data = <<200, 800>>
    /\ ~IsRaise(result)
    /\ CanonImage.data = <<63, 255>>

\* C16: a float frame whose values are all zero becomes an all-zero image of
\* the same shape, and the call raises nothing.
C16_ZeroFloatFrame ==
    (FloatCalled /\ \A i \in 1..Len(CanonInput.data) : CanonInput.data[i] = 0) =>
        LET zero(v) == 0
        IN ValuesBecome(zero)

\* an all-zero float frame was converted
C16_Witness ==
    /\ FloatCalled
    /\ CanonInput.data = <<0, 0, 0>>
    /\ ~IsRaise(result)
    /\ CanonImage.data = <<0, 0, 0>>

\* C17: every value v of a 16-bit unsigned frame becomes floor(v / 256),
\* whatever the other values of the frame are.
C17_Uint16DividedBy256 ==
    (CanonCalled /\ CanonInput.dtype = "uint16" /\ Supported(CanonInput.shape)) =>
        LET f(v) == v \div 256
        IN ValuesBecome(f)

\* 65280 became 255 and 256 became 1
C17_Witness ==
    /\ CanonCalled
    /\ CanonInput = ndarray("uint16", <<1, 2>>, <<65280, 256>>)
    /\ ~IsRaise(result)
    /\ CanonImage.data = <<255, 1>>

\* C18: in a frame of another integer width a value in 0..255 is kept as it
\* is and a value above 255 becomes 255.
C18_OtherIntegersClipped ==
    (/\ CanonCalled
     /\ ~IsFloat(CanonInput.dtype)
     /\ CanonInput.dtype \notin {"uint8", "uint16"}
     /\ Supported(CanonInput.shape)) =>
        /\ ~IsRaise(result)
        /\ \A i \in 1..Len(CanonInput.data) :
              /\ CanonInput.data[i] \in 0..255
                    => CanonImage.data[i] = CanonInput.data[i]
              /\ CanonInput.data[i] > 255 => CanonImage.data[i] = 255

\* C19: the conversion returns an image for rank 2 and for rank 3 with 3 or 4
\* channels, and for every other rank or channel count it returns no image and
\* raises.
C19_OnlyThreeLayoutsAccepted ==
    (CanonCalled /\ CanonInput.dtype = "uint8") =>
        (IsRaise(result) <=> ~Supported(CanonInput.shape))

\* the last call was one of the two conversions
ConversionCalled == call.op \in {"frame_to_pil_image", "frame_to_temp_file"}

\* C20: frame_to_pil_image and frame_to_temp_file leave the array they are
\* given with the values it had, for every dtype and shape, and what they
\* return is held in memory of its own, not in the memory of that array.
C20_ResultInOwnBuffer ==
    ConversionCalled =>
        /\ \A k \in 1..Len(call.before) : vis.memory[k] = call.before[k]
        /\ (CanonCalled /\ ~IsRaise(result)) => CanonImage.buffer # call.frame

-----------------------------------------------------------------------------
(* Further claims about the loaders *)

\* the files of the directory the last call read
CalledFiles == dirs[call.patient]

\* C21: load_angio returns the image of a png of the directory that is not the
\* ecg_visualization_*.png file, and it returns None when every png of the
\* directory is the ECG image.
C21_AngioIsNeverTheEcgImage ==
    call.op = "load_angio" =>
        /\ result.value # NoneVal =>
              \E i \in 1..Len(CalledFiles) :
                  /\ IsPng(CalledFiles[i]) /\ ~IsEcgPng(CalledFiles[i])
                  /\ result.value.data = CalledFiles[i].content
        /\ (\A i \in 1..Len(CalledFiles) :
                IsPng(CalledFiles[i]) => IsEcgPng(CalledFiles[i]))
              => result.value = NoneVal

-----------------------------------------------------------------------------
(* Further claims about the viewer *)

\* the patient list is shown, or the ECG or the angiography modality is
NavigatedAway ==
    \/ win.page = "patients"
    \/ win.current_modality_label \in {"ECG", "Cardiac Angiography"}

\* what load_echo returns for the patient the viewer shows
EchoOfCurrentPatient ==
    load_echo(dirs[win.current_patient], filelist_csv, volume_tracings_csv).value

\* C22: once the user went back to the patient list or switched to the ECG or
\* the angiography modality, the viewer holds no echo frames and no echo
\* metadata and playback is stopped; echo frames are held only as load_echo
\* returned them for the current patient, at least one frame, with their
\* metadata.
C22_UnloadedAfterNavigatingAway ==
    /\ NavigatedAway =>
          /\ win.current_echo_frames = NoneVal
          /\ win.current_echo_metadata = NoneVal
          /\ ~win.is_video_playing
          /\ ~win.video_timer.active
    /\ win.current_echo_frames # NoneVal =>
          /\ win.current_patient # NoPatient
          /\ EchoOfCurrentPatient # NoneVal
          /\ Len(EchoOfCurrentPatient.data) > 0
          /\ win.current_echo_frames = List(EchoOfCurrentPatient.data)
          /\ win.current_echo_metadata = EchoOfCurrentPatient.metadata

\* the user left the echo display of a loaded recording for the patient list
C22_Witness ==
    /\ win.page = "patients"
    /\ win.current_patient = "p001"
    /\ win.current_modality_label = "Echocardiography"
    /\ win.echo_fps = 50
    /\ win.current_echo_frames = NoneVal

-----------------------------------------------------------------------------
(* Claims about the temporary files *)

\* the paths of the temporary directory whose file exists
Existing(tmp) == {path \in 1..Len(tmp) : tmp[path] # Deleted}

\* a file disappears from the temporary directory only in a step that is a
\* call of cleanup_temp_files
DeletedOnlyByCleanup ==
    [][Existing(vis.tmp) \ Existing(vis'.tmp) # {}
          => call'.op = "cleanup_temp_files"]_vars

\* after cleanup_temp_files returned, temp_files is empty and none of the
\* files that frame_to_temp_file or plot_ecg created exists
NothingLeftAfterCleanup ==
    call.op = "cleanup_temp_files" =>
        vis.temp_files = <<>> /\ Existing(vis.tmp) = {}

\* C23: temporary files are deleted only by a call of cleanup_temp_files, and
\* after that call returned temp_files is empty and no file that
\* frame_to_temp_file or plot_ecg created still exists.
C23_CleanupRemovesEveryTempFile ==
    DeletedOnlyByCleanup /\ []NothingLeftAfterCleanup

-----------------------------------------------------------------------------
(* Claims about playback *)

Playing(w) == w.is_video_playing \/ w.video_timer.active

\* C24: from the press of the frame slider on, through every move of the
\* handle and its release, playback is stopped: while the handle is held the
\* video does not play, and no step taken while it is held, a timer firing
\* included, starts it.
C24_ScrubbingKeepsVideoPaused ==
    /\ [](win.frame_slider.down => ~Playing(win))
    /\ [][win.frame_slider.down => ~Playing(win')]_vars

\* C25: after every handler the flag is_video_playing is true exactly when
\* the frame-advance timer is active.
C25_PlayingIffTimerActive ==
    win.is_video_playing <=> win.video_timer.active

\* the video plays and the timer has advanced it past the first frame
C25_Witness ==
    /\ win.is_video_playing
    /\ win.video_timer.active
    /\ win.current_frame_index = 1

\* a non-empty frame sequence is loaded
FramesLoaded == FrameCount(win) > 0

\* C26: while a non-empty frame sequence is loaded the frame index is inside
\* 0 .. number of frames - 1 and the slider shows it; the timed advance from
\* the last frame goes to 0, and Stop sets the index to 0.
C26_IndexInRangeAndOnSlider ==
    /\ [](FramesLoaded =>
            /\ win.current_frame_index \in 0..(FrameCount(win) - 1)
            /\ win.frame_slider.value = win.current_frame_index)
    /\ [][(FramesLoaded /\ win' = play_next_frame(win)
             /\ win.current_frame_index = FrameCount(win) - 1)
          => win'.current_frame_index = 0]_vars
    /\ [][(FramesLoaded /\ win' = stop_video(win))
          => win'.current_frame_index = 0]_vars

\* C27: the video plays only while a non-empty frame sequence is loaded and
\* the viewer page shows the Echocardiography modality; in particular the
\* autoplay timer, armed by a load, is not running once the user switched to
\* another modality or went back to the patient list.
C27_PlaysOnlyLoadedEcho ==
    /\ Playing(win) =>
          /\ FramesLoaded
          /\ win.current_modality_label = "Echocardiography"
          /\ win.page = "viewer"
    /\ win.autoplay_timer.active =>
          /\ FramesLoaded
          /\ win.current_modality_label = "Echocardiography"
          /\ win.page = "viewer"

\* the autoplay timer started the video of a loaded recording: the timer
\* interval is still that of the speed chosen at the load, which Play would
\* have replaced
C27_Witness ==
    /\ win.is_video_playing
    /\ ~win.autoplay_timer.active
    /\ FramesLoaded
    /\ win.video_timer.interval # FrameInterval(win.echo_fps, win.playback_speed)

\* the picture on the echo label is that of frame k of the loaded video
Renders(k) ==
    win.echo_label = display_frame(win, k).echo_label

\* C28: while a non-empty frame sequence is loaded, the picture on screen is
\* the frame at current_frame_index, the position the frame label shows.
C28_PictureIsCurrentFrame ==
    FramesLoaded =>
        /\ Renders(win.current_frame_index)
        /\ win.frame_label.index = win.current_frame_index

-----------------------------------------------------------------------------
(* Claims about the image file *)

\* the last call was frame_to_temp_file, and the array it was given
TempFileCalled == call.op = "frame_to_temp_file"
TempFileInput == call.before[call.frame]

\* C30: the file frame_to_temp_file writes holds the image frame_to_pil_image
\* returns for the same array, value by value, whatever the dtype; and it
\* writes a file exactly when frame_to_pil_image returns an image.
C30_FileHoldsTheCanonicalImage ==
    TempFileCalled =>
        LET img == frame_to_pil_image(TempFileInput)
        IN /\ IsRaise(result) <=> IsRaise(img)
           /\ ~IsRaise(result) =>
                 /\ vis.tmp[result.value].image = img.value.data
                 /\ vis.tmp[result.value].size = img.value.size
                 /\ vis.tmp[result.value].mode = img.value.mode

-----------------------------------------------------------------------------
(* Claims about the ECG viewer widget *)

EcgModeOps == {"show_grid_mode", "back_button.clicked", "show_single_mode", "on_click"}

\* the mode is "grid" or "single"; no lead is selected exactly in grid mode,
\* and the lead selected in single mode is one of 0..11
ModeAndLeadAgree ==
    LET e == win.ecg_viewer
    IN /\ e.current_mode \in {"grid", "single"}
       /\ (e.selected_lead = NoneVal) <=> (e.current_mode = "grid")
       /\ e.current_mode = "single" =>
              e.selected_lead \in {Lead(i) : i \in 0..11}

\* a click on the canvas changes the mode only from grid to single
ClickOnlyOpensALead ==
    [][(call'.op = "on_click"
        /\ win'.ecg_viewer.current_mode # win.ecg_viewer.current_mode)
       => (win.ecg_viewer.current_mode = "grid"
           /\ win'.ecg_viewer.current_mode = "single")]_vars

\* show_single_mode with an index outside 0..11 changes nothing, and neither
\* does any change of mode asked for while no signal is set
RefusedModeChangesKeepState ==
    [][/\ (call'.op = "show_single_mode"
           /\ call'.argument \notin {Lead(i) : i \in 0..11})
          => win'.ecg_viewer = win.ecg_viewer
       /\ (call'.op \in EcgModeOps /\ win.ecg_viewer.signal = NoneVal)
          => win'.ecg_viewer = win.ecg_viewer]_vars

\* set_signal with an array that is not of shape (12, T) raises ValueError and
\* keeps the stored signal and the mode
BadSignalIsRejected ==
    [][(call'.op = "set_signal" /\ ~IsTwelveLead(call'.argument))
       => /\ result' = Raise("ValueError")
          /\ win'.ecg_viewer.signal = win.ecg_viewer.signal
          /\ win'.ecg_viewer.current_mode = win.ecg_viewer.current_mode]_vars

\* C29: after any sequence of set_signal, show_grid_mode, show_single_mode,
\* Return clicks and plot clicks, the mode is "grid" or "single", no lead is
\* selected exactly in grid mode and a lead in 0..11 is selected in single
\* mode; a plot click changes the mode only from grid to single;
\* show_single_mode with an index outside 0..11, and every mode change while
\* no signal is set, leave the widget unchanged; set_signal with an array
\* that is not of shape (12, T) raises ValueError and keeps signal and mode
C29_EcgViewerModes ==
    /\ []ModeAndLeadAgree
    /\ ClickOnlyOpensALead
    /\ RefusedModeChangesKeepState
    /\ BadSignalIsRejected

\* a lead opened by a click is shown, then set_signal is called with an array
\* that is not 12 leads and raises
C29_Witness ==
    /\ call.op = "set_signal"
    /\ ~IsTwelveLead(call.argument)
    /\ result = Raise("ValueError")
    /\ win.ecg_viewer.current_mode = "single"
    /\ win.ecg_viewer.selected_lead = Lead(11)
    /\ win.ecg_viewer.signal # NoneVal


=============================================================================
